---- MODULE Spec2Model ----
(***************************************************************************)
(* A model of file_hasher's manifest store (EDList), its entries           *)
(* (EDElement) and the on-disk manifest format.                            *)
(*                                                                         *)
(* Strings are sequences of bytes (ASCII codes), so that the line format,  *)
(* its escaping, the hex codec and single-bit alterations of a file are    *)
(* computed on the bytes the program reads and writes.                     *)
(***************************************************************************)
EXTENDS Integers, Sequences, FiniteSets, TLC

(***************************************************************************)
(* Bounds of the model.                                                    *)
(***************************************************************************)
\* Width of a digest in bytes in the model (HASH_OUTPUT_LENGTH is 32 in the
\* program; no operation depends on the width other than through lengths).
HashLen == 2
\* Longest path / link target drawn for the codec specification.
MaxStrLen == 2
\* Largest number of entries of a store drawn for the file specification.
MaxEntries == 2

(***************************************************************************)
(* Characters.                                                             *)
(***************************************************************************)
Chr ==
  (" " :> 32) @@ ("(" :> 40) @@ (")" :> 41) @@ ("+" :> 43) @@ ("," :> 44) @@
  ("-" :> 45) @@ ("." :> 46) @@ ("/" :> 47) @@
  ("0" :> 48) @@ ("1" :> 49) @@ ("2" :> 50) @@ ("3" :> 51) @@ ("4" :> 52) @@
  ("5" :> 53) @@ ("6" :> 54) @@ ("7" :> 55) @@ ("8" :> 56) @@ ("9" :> 57) @@
  ("=" :> 61) @@ ("#" :> 35) @@ ("_" :> 95) @@ ("h" :> 104) @@ ("o" :> 111) @@
  ("r" :> 114) @@ ("u" :> 117) @@
  ("A" :> 65) @@ ("B" :> 66) @@ ("C" :> 67) @@ ("D" :> 68) @@ ("E" :> 69) @@
  ("F" :> 70) @@ ("H" :> 72) @@ ("I" :> 73) @@ ("J" :> 74) @@ ("K" :> 75) @@ ("L" :> 76) @@
  ("M" :> 77) @@ ("N" :> 78) @@ ("O" :> 79) @@ ("R" :> 82) @@ ("S" :> 83) @@
  ("T" :> 84) @@ ("U" :> 85) @@ ("V" :> 86) @@ ("X" :> 88) @@
  ("[" :> 91) @@ ("\\" :> 92) @@ ("]" :> 93) @@
  ("a" :> 97) @@ ("b" :> 98) @@ ("c" :> 99) @@ ("d" :> 100) @@ ("e" :> 101) @@
  ("f" :> 102) @@ ("i" :> 105) @@ ("k" :> 107) @@ ("l" :> 108) @@
  ("n" :> 110) @@ ("s" :> 115) @@ ("t" :> 116) @@ ("NUL" :> 0) @@ ("LF" :> 10) @@ ("CR" :> 13)

\* The bytes of a string given as a tuple of one-character strings.
Asc(t) == [i \in 1..Len(t) |-> Chr[t[i]]]

RECURSIVE Concat(_)
Concat(ss) == IF ss = <<>> THEN <<>> ELSE Head(ss) \o Concat(Tail(ss))

\* s without its first n bytes.
Drop(s, n) == SubSeq(s, n + 1, Len(s))

HasPrefix(s, p) == Len(s) >= Len(p) /\ SubSeq(s, 1, Len(p)) = p

\* str::strip_prefix: the rest of s after p, or "None".
StripPrefix(s, p) ==
  IF HasPrefix(s, p) THEN [some |-> TRUE, rest |-> Drop(s, Len(p))]
  ELSE [some |-> FALSE]

\* str::replace of a single byte by a byte string.
RECURSIVE Replace(_, _, _)
Replace(s, c, by) ==
  IF s = <<>> THEN <<>>
  ELSE (IF Head(s) = c THEN by ELSE <<Head(s)>>) \o Replace(Tail(s), c, by)

(***************************************************************************)
(* constants.rs                                                            *)
(***************************************************************************)
FIN_CHECKSUM_PREFIX == Asc(<<"C","H","E","C","K","S","U","M"," ","="," ">>)
XOR_CHECKSUM_PREFIX == Asc(<<"X","O","R","C","H","E","C","K","S","U","M"," ","="," ">>)
LIST_VERSION_PREFIX == Asc(<<"L","I","S","T","V","E","R","S","I","O","N"," ","="," ">>)
CURRENT_LIST_VERSION == Asc(<<"1",".","1">>)

(***************************************************************************)
(* Checksum (shared/checksum.rs) and the Blake2b wrapper.                  *)
(***************************************************************************)
RECURSIVE XorBits(_, _, _)
XorBits(a, b, n) ==
  IF n = 0 THEN 0 ELSE ((a + b) % 2) + 2 * XorBits(a \div 2, b \div 2, n - 1)

\* u8 ^ u8
XorByte(a, b) == XorBits(a, b, 8)

\* Checksum::default(): all bytes zero.
ChecksumDefault == [i \in 1..HashLen |-> 0]

\* impl BitXorAssign<&Checksum> for Checksum
ChecksumXor(a, b) == [i \in 1..HashLen |-> XorByte(a[i], b[i])]

\* A hasher is the byte string fed to it so far.
Blake2bNew == <<>>

\* Update::update: the bytes are appended to the hashed message.
Blake2bUpdate(hasher, bytes) == hasher \o bytes

\* The bytes lo..hi of msg mixed into acc one after the other, first to last
\* (the range is halved, and the value so far is taken before the next byte,
\* so that long messages do not nest deeply; it is never negative).
RECURSIVE Absorb(_, _, _, _, _)
Absorb(msg, lo, hi, acc, m) ==
  IF acc < 0 \/ lo > hi THEN acc
  ELSE IF lo = hi THEN (acc * m + msg[lo] + 1) % 251
  ELSE LET mid == (lo + hi) \div 2
       IN Absorb(msg, mid + 1, hi, Absorb(msg, lo, mid, acc, m), m)

\* blake2_to_checksum: the digest of the message. Blake2b itself is modelled by
\* a fixed mixing function of the whole message (every byte, in order, and the
\* length); two messages differ in digest only if they differ.
blake2_to_checksum(hasher) ==
  [j \in 1..HashLen |->
     LET m == 29 + 12 * j
     IN (Absorb(hasher, 1, Len(hasher), j, m) * m + Len(hasher)) % 251]

(***************************************************************************)
(* hex                                                                     *)
(***************************************************************************)
HexUpper == Asc(<<"0","1","2","3","4","5","6","7","8","9","A","B","C","D","E","F">>)

\* hex::encode_upper
RECURSIVE encode_upper(_)
encode_upper(bytes) ==
  IF bytes = <<>> THEN <<>>
  ELSE <<HexUpper[(Head(bytes) \div 16) + 1], HexUpper[(Head(bytes) % 16) + 1]>>
       \o encode_upper(Tail(bytes))

\* A faulty variant of HexVal: a byte that is no hex digit counts as 0.
HexValZero(c) ==
  IF c >= Chr["0"] /\ c <= Chr["9"] THEN c - Chr["0"]
  ELSE IF c >= Chr["A"] /\ c <= Chr["F"] THEN c - Chr["A"] + 10
  ELSE IF c >= Chr["a"] /\ c <= Chr["f"] THEN c - Chr["a"] + 10
  ELSE 0

\* The value of one hex digit, either case, or -1.
HexVal(c) ==
  IF c >= Chr["0"] /\ c <= Chr["9"] THEN c - Chr["0"]
  ELSE IF c >= Chr["A"] /\ c <= Chr["F"] THEN c - Chr["A"] + 10
  ELSE IF c >= Chr["a"] /\ c <= Chr["f"] THEN c - Chr["a"] + 10
  ELSE -1

\* hex::decode_to_slice(data, out) with out of n bytes.
decode_to_slice(data, n) ==
  IF Len(data) % 2 = 1 THEN [ok |-> FALSE, err |-> "OddLength"]
  ELSE IF Len(data) \div 2 # n THEN [ok |-> FALSE, err |-> "InvalidStringLength"]
  ELSE IF \E i \in 1..Len(data) : HexVal(data[i]) = -1
       THEN [ok |-> FALSE, err |-> "InvalidHexCharacter"]
  ELSE [ok |-> TRUE,
        val |-> [i \in 1..n |-> 16 * HexVal(data[2 * i - 1]) + HexVal(data[2 * i])]]

\* Display of a Checksum / blake2_to_string: capital hexadecimal letters.
ChecksumToString(c) == encode_upper(c)

(***************************************************************************)
(* Integers as text and as bytes.                                          *)
(***************************************************************************)
\* u64::to_le_bytes
RECURSIVE LEBytes(_, _)
LEBytes(t, n) == IF n = 0 THEN <<>> ELSE <<t % 256>> \o LEBytes(t \div 256, n - 1)

to_le_bytes(t) == LEBytes(t, 8)

\* Display of a u64: decimal, no sign, no leading zero.
RECURSIVE U64ToString(_)
U64ToString(t) ==
  IF t < 10 THEN <<Chr["0"] + t>>
  ELSE U64ToString(t \div 10) \o <<Chr["0"] + (t % 10)>>

IsDigit(c) == c >= Chr["0"] /\ c <= Chr["9"]

RECURSIVE DigitsValue(_, _)
DigitsValue(s, acc) ==
  IF s = <<>> THEN acc ELSE DigitsValue(Tail(s), 10 * acc + (Head(s) - Chr["0"]))

\* u64::from_str_radix(s, 10): an optional '+', then at least one digit, only
\* digits. (Values stay far below 2^64 for the strings of the model, so the
\* overflow error does not arise.)
from_str_radix(s) ==
  LET digits == IF s # <<>> /\ Head(s) = Chr["+"] THEN Tail(s) ELSE s
  IN IF digits = <<>> \/ \E i \in 1..Len(digits) : ~IsDigit(digits[i])
     THEN [ok |-> FALSE]
     ELSE [ok |-> TRUE, val |-> DigitsValue(digits, 0)]

(***************************************************************************)
(* EDElement (e_d_list/e_d_element.rs)                                     *)
(***************************************************************************)
FileVariant(file_checksum) == [type |-> "File", file_checksum |-> file_checksum]
LinkVariant(link_target) == [type |-> "Link", link_target |-> link_target]

\* The bytes of the variant that enter a hash.
VariantBytes(variant_fields) ==
  IF variant_fields.type = "File" THEN variant_fields.file_checksum
  ELSE variant_fields.link_target

\* The byte string from_internal feeds to the element hasher.
ElementMessage(path, modified_time, variant_fields) ==
  Blake2bUpdate(Blake2bUpdate(Blake2bUpdate(Blake2bNew, path),
                              to_le_bytes(modified_time)),
                VariantBytes(variant_fields))

\* EDElement::from_internal
from_internal(path, modified_time, variant_fields) ==
  [path |-> path, modified_time |-> modified_time, variant_fields |-> variant_fields,
   element_hash |-> blake2_to_checksum(ElementMessage(path, modified_time, variant_fields))]

\* A faulty variant of EscapePath: the backslash is not escaped.
EscapePathCommaOnly(path) == Replace(path, Chr[","], Asc(<<"\\", ",">>))

\* The escaping of the path in Display.
EscapePath(path) ==
  Replace(Replace(path, Chr["\\"], Asc(<<"\\", "\\">>)), Chr[","], Asc(<<"\\", ",">>))

\* The escaping of the link target in Display.
EscapeTarget(link_target) ==
  Replace(Replace(link_target, Chr["\\"], Asc(<<"\\", "\\">>)), Chr[")"], Asc(<<"\\", ")">>))

\* impl Display for EDElement
EDElementToString(e) ==
  LET variant_fields ==
        IF e.variant_fields.type = "File"
        THEN Asc(<<"f","i","l","e","(">>) \o encode_upper(e.variant_fields.file_checksum)
             \o Asc(<<")">>)
        ELSE Asc(<<"l","i","n","k","(">>) \o EscapeTarget(e.variant_fields.link_target)
             \o Asc(<<")">>)
  IN Asc(<<"[">>) \o EscapePath(e.path) \o Asc(<<",">>) \o U64ToString(e.modified_time)
     \o Asc(<<",">>) \o variant_fields \o Asc(<<"]">>)

\* The loops of try_from that read the path and the link target: from position i
\* of value, a backslash takes the next character literally, the terminator ends
\* the field. [ok, str, next] or [ok = FALSE, err].
RECURSIVE ParseEscaped(_, _, _, _, _, _)
ParseEscaped(value, i, acc, terminator, err_escape, err_end) ==
  IF i > Len(value) THEN [ok |-> FALSE, err |-> err_end]
  ELSE IF value[i] = Chr["\\"]
       THEN IF i + 1 > Len(value) THEN [ok |-> FALSE, err |-> err_escape]
            ELSE ParseEscaped(value, i + 2, Append(acc, value[i + 1]), terminator,
                              err_escape, err_end)
  ELSE IF value[i] = terminator THEN [ok |-> TRUE, str |-> acc, next |-> i + 1]
  ELSE ParseEscaped(value, i + 1, Append(acc, value[i]), terminator, err_escape, err_end)

\* The loop of try_from that reads the modified time: no escapes.
RECURSIVE ParseUntilComma(_, _, _)
ParseUntilComma(value, i, acc) ==
  IF i > Len(value) THEN [ok |-> FALSE, err |-> "Missing ending of modified time string"]
  ELSE IF value[i] = Chr[","] THEN [ok |-> TRUE, str |-> acc, next |-> i + 1]
  ELSE ParseUntilComma(value, i + 1, Append(acc, value[i]))

\* The variant part of try_from; rest is what follows the modified time.
\* [ok, variant_fields, rest] (rest from the closing bracket on) or [ok = FALSE, err].
ParseVariant(rest) ==
  IF Len(rest) < 5
  THEN [ok |-> FALSE, err |-> "EDElement was missing information about its variant"]
  ELSE IF SubSeq(rest, 1, 5) = Asc(<<"f","i","l","e","(">>)
  THEN IF Len(rest) < 5 + HashLen * 2 THEN [ok |-> FALSE, err |-> "File hash is incomplete"]
       ELSE LET result == decode_to_slice(SubSeq(rest, 6, 5 + HashLen * 2), HashLen)
                after == Drop(rest, 5 + HashLen * 2)
            IN IF ~result.ok THEN [ok |-> FALSE, err |-> "Error decoding file hash"]
               ELSE IF after = <<>> \/ Head(after) # Chr[")"]
               THEN [ok |-> FALSE, err |-> "Missing end character after file_hash"]
               ELSE [ok |-> TRUE, variant_fields |-> FileVariant(result.val),
                     rest |-> Tail(after)]
  ELSE IF SubSeq(rest, 1, 5) = Asc(<<"l","i","n","k","(">>)
  THEN LET link == ParseEscaped(rest, 6, <<>>, Chr[")"],
                                "Missing escaped character after '\\'",
                                "Missing end of link_target")
       IN IF ~link.ok THEN [ok |-> FALSE, err |-> link.err]
          ELSE [ok |-> TRUE, variant_fields |-> LinkVariant(link.str),
                rest |-> Drop(rest, link.next - 1)]
  ELSE [ok |-> FALSE, err |-> "Invalid variant_string"]

\* impl TryFrom<&str> for EDElement: [ok, element] or [ok = FALSE, err].
EDElementTryFrom(value) ==
  IF value = <<>> \/ Head(value) # Chr["["]
  THEN [ok |-> FALSE, err |-> "Missing start bracket"]
  ELSE
  LET path == ParseEscaped(value, 2, <<>>, Chr[","], "Missing escaped char in path",
                           "Missing end character after file name")
  IN IF ~path.ok THEN [ok |-> FALSE, err |-> path.err]
  ELSE
  LET time_string == ParseUntilComma(value, path.next, <<>>)
  IN IF ~time_string.ok THEN [ok |-> FALSE, err |-> time_string.err]
  ELSE
  LET modified_time == from_str_radix(time_string.str)
  IN IF ~modified_time.ok THEN [ok |-> FALSE, err |-> "Error parsing modified time"]
  ELSE
  LET variant == ParseVariant(Drop(value, time_string.next - 1))
  IN IF ~variant.ok THEN [ok |-> FALSE, err |-> variant.err]
  ELSE IF variant.rest = <<>> \/ Head(variant.rest) # Chr["]"]
  THEN [ok |-> FALSE, err |-> "Last bracket missing from EDElement string!"]
  ELSE [ok |-> TRUE,
        element |-> from_internal(path.str, modified_time.val, variant.variant_fields)]

(***************************************************************************)
(* EDList (e_d_list.rs): the manifest file                                 *)
(***************************************************************************)
RECURSIVE Reverse(_)
Reverse(q) == IF q = <<>> THEN <<>> ELSE Append(Reverse(Tail(q)), Head(q))

\* A faulty variant of EDList::new: the entries end up in reverse order.
EDListNewReversed(element_list, xor_checksum) ==
  [element_list |-> Reverse(element_list), xor_checksum |-> xor_checksum]

\* EDList::new
EDListNew(element_list, xor_checksum) ==
  [element_list |-> element_list, xor_checksum |-> xor_checksum]

\* The store of a failed open: there is none (the fields are never read).
NoEDList == EDListNew(<<>>, ChecksumDefault)

\* A faulty variant of XorOfElements: only the first element is folded.
XorOfElementsHead(element_list) ==
  IF element_list = <<>> THEN ChecksumDefault ELSE Head(element_list).element_hash

\* The xor of the element hashes of a list (the fold open recomputes).
RECURSIVE XorOfElements(_)
XorOfElements(element_list) ==
  IF element_list = <<>> THEN ChecksumDefault
  ELSE ChecksumXor(Head(element_list).element_hash, XorOfElements(Tail(element_list)))

\* A faulty variant of HashElements: the hasher is given the fold of the
\* element hashes, not one hash after the other.
HashElementsOfFold(hasher, element_list) == Blake2bUpdate(hasher, XorOfElements(element_list))

\* hasher.update(element.get_hash()) for every element, in list order.
RECURSIVE HashElements(_, _)
HashElements(hasher, element_list) ==
  IF element_list = <<>> THEN hasher
  ELSE HashElements(Blake2bUpdate(hasher, Head(element_list).element_hash),
                    Tail(element_list))

RECURSIVE ElementString(_)
ElementString(element_list) ==
  IF element_list = <<>> THEN <<>>
  ELSE EDElementToString(Head(element_list)) \o <<Chr["LF"]>>
       \o ElementString(Tail(element_list))

\* A faulty variant of write_edlist_to_file: the xor checksum does not enter the
\* final checksum.
write_edlist_to_file_no_fold(e_d_list) ==
  LET hasher == HashElements(Blake2bNew, e_d_list.element_list)
  IN LIST_VERSION_PREFIX \o CURRENT_LIST_VERSION \o <<Chr["LF"]>>
     \o XOR_CHECKSUM_PREFIX \o encode_upper(e_d_list.xor_checksum) \o <<Chr["LF"]>>
     \o FIN_CHECKSUM_PREFIX \o ChecksumToString(blake2_to_checksum(hasher)) \o <<Chr["LF"]>>
     \o ElementString(e_d_list.element_list)

\* A faulty variant of write_edlist_to_file: the xor checksum written is folded
\* anew from the entries.
write_edlist_to_file_refolded(e_d_list) ==
  LET xor_checksum == XorOfElements(e_d_list.element_list)
      hasher == Blake2bUpdate(HashElements(Blake2bNew, e_d_list.element_list), xor_checksum)
  IN LIST_VERSION_PREFIX \o CURRENT_LIST_VERSION \o <<Chr["LF"]>>
     \o XOR_CHECKSUM_PREFIX \o encode_upper(xor_checksum) \o <<Chr["LF"]>>
     \o FIN_CHECKSUM_PREFIX \o ChecksumToString(blake2_to_checksum(hasher)) \o <<Chr["LF"]>>
     \o ElementString(e_d_list.element_list)

\* EDList::write_edlist_to_file: the bytes written.
write_edlist_to_file(e_d_list) ==
  LET hasher == Blake2bUpdate(HashElements(Blake2bNew, e_d_list.element_list),
                              e_d_list.xor_checksum)
      list_version_string == LIST_VERSION_PREFIX \o CURRENT_LIST_VERSION \o <<Chr["LF"]>>
      xor_checksum_string ==
        XOR_CHECKSUM_PREFIX \o encode_upper(e_d_list.xor_checksum) \o <<Chr["LF"]>>
      fin_checksum_string ==
        FIN_CHECKSUM_PREFIX \o ChecksumToString(blake2_to_checksum(hasher)) \o <<Chr["LF"]>>
  IN list_version_string \o xor_checksum_string \o fin_checksum_string
     \o ElementString(e_d_list.element_list)

\* BufRead::lines: the text is cut at every LF; a CR right before the LF is
\* dropped with it; what follows the last LF is a line unless it is empty.
RECURSIVE SplitLines(_, _)
SplitLines(bytes, cur) ==
  LET ends == {i \in 1..Len(bytes) : bytes[i] = Chr["LF"]}
  IN IF ends = {} THEN (IF cur \o bytes = <<>> THEN <<>> ELSE <<cur \o bytes>>)
     ELSE LET end == CHOOSE i \in ends : \A j \in ends : i <= j
              raw == cur \o SubSeq(bytes, 1, end - 1)
          IN <<IF raw # <<>> /\ raw[Len(raw)] = Chr["CR"]
               THEN SubSeq(raw, 1, Len(raw) - 1) ELSE raw>>
             \o SplitLines(Drop(bytes, end), <<>>)

\* BufReader::new(file).lines().collect::<Result<Vec<_>, _>>(): an io::Error
\* when the bytes are not UTF-8. The text of the model is ASCII, in which any
\* byte above 127 stands alone and is invalid.
ReadLines(bytes) ==
  IF \E i \in 1..Len(bytes) : bytes[i] > 127 THEN [ok |-> FALSE]
  ELSE [ok |-> TRUE, lines |-> SplitLines(bytes, <<>>)]

\* A faulty variant of get_version_from_line: version 1.0 is taken for 1.1.
get_version_from_line_lenient(line) ==
  LET identifier == StripPrefix(line, LIST_VERSION_PREFIX)
  IN IF ~identifier.some THEN "MissingIdentifier"
     ELSE IF identifier.rest \in {Asc(<<"1",".","1">>), Asc(<<"1",".","0">>)} THEN "V1_1"
     ELSE "InvalidVersion"

\* EDList::get_version_from_line
get_version_from_line(line) ==
  LET identifier == StripPrefix(line, LIST_VERSION_PREFIX)
  IN IF ~identifier.some THEN "MissingIdentifier"
     ELSE IF identifier.rest = Asc(<<"1",".","1">>) THEN "V1_1"
     ELSE IF identifier.rest = Asc(<<"1",".","0">>) THEN "V1_0"
     ELSE "InvalidVersion"

\* The outcomes of write_backup, by what the filesystem does.
BackupIo == {"ok", "CreateDirectoryError", "CreateFileError", "WriteError", "FlushError"}

\* A faulty variant of write_backup: a failure to create the backup is not
\* reported.
write_backup_unreported(e_d_list, io) ==
  IF io \in {"CreateDirectoryError", "CreateFileError"}
  THEN [ok |-> TRUE, created |-> FALSE, bytes |-> <<>>]
  ELSE IF io = "WriteError" THEN [ok |-> FALSE, created |-> TRUE, bytes |-> <<>>]
  ELSE [ok |-> io = "ok", created |-> TRUE, bytes |-> write_edlist_to_file(e_d_list)]

\* EDList::write_backup: [ok, created, bytes]: whether it returned Ok, whether a
\* backup file came to exist and what it holds.
write_backup(e_d_list, io) ==
  IF io \in {"CreateDirectoryError", "CreateFileError"}
  THEN [ok |-> FALSE, created |-> FALSE, bytes |-> <<>>]
  ELSE IF io = "WriteError" THEN [ok |-> FALSE, created |-> TRUE, bytes |-> <<>>]
  ELSE [ok |-> io = "ok", created |-> TRUE, bytes |-> write_edlist_to_file(e_d_list)]

OpenError(result, detail) ==
  [result |-> result, detail |-> detail, has_list |-> FALSE, e_d_list |-> NoEDList,
   backup |-> [created |-> FALSE, bytes |-> <<>>], index |-> 0]

\* create_empty_e_d_list, inside open
create_empty_e_d_list == EDListNew(<<>>, ChecksumDefault)

\* The elements of parsed lines.
RECURSIVE ParsedElements(_)
ParsedElements(parsed) ==
  IF parsed = <<>> THEN <<>>
  ELSE <<Head(parsed).element>> \o ParsedElements(Tail(parsed))

\* The entry lines, each through EDElement::try_from.
RECURSIVE TryFromLines(_)
TryFromLines(lines) ==
  IF lines = <<>> THEN <<>>
  ELSE <<EDElementTryFrom(Head(lines))>> \o TryFromLines(Tail(lines))

\* The schedules of the workers that parse n lines: the order in which the
\* lines come to be parsed.
Schedules(n) ==
  {order \in [1..n -> 1..n] : \A i, j \in 1..n : i # j => order[i] # order[j]}

\* A faulty variant of the collecting of the parsed lines: they are put in the
\* order in which the workers parsed them.
collect_as_parsed(parsed, order) == [k \in 1..Len(parsed) |-> parsed[order[k]]]

\* into_par_iter().enumerate().map(..).collect() of parsed lines under a
\* schedule: the k-th result to come is that of line order[k], and the Vec
\* collected holds at position i the result of line i.
collect(parsed, order) ==
  LET came == [k \in 1..Len(parsed) |-> [i |-> order[k], item |-> parsed[order[k]]]]
  IN [i \in 1..Len(parsed) |-> came[CHOOSE k \in 1..Len(parsed) : came[k].i = i].item]

\* The end of the part of open below, for the elements collected: the two
\* checksum comparisons.
OpenChecked(e_d_elements, file_xor_checksum, file_final_checksum) ==
  IF file_xor_checksum # XorOfElements(e_d_elements)
  THEN OpenError("XorChecksumMismatch", "")
  ELSE IF file_final_checksum
          # ChecksumToString(blake2_to_checksum(
              Blake2bUpdate(HashElements(Blake2bNew, e_d_elements), file_xor_checksum)))
  THEN OpenError("FinChecksumMismatch", "")
  ELSE [OpenError("Checked", "") EXCEPT !.e_d_list = EDListNew(e_d_elements, file_xor_checksum)]

\* A faulty variant of ParseErrors: the error carries the number of the line
\* in the file, as its display shows it.
ParseErrorsLineCount(parsed) ==
  {[OpenError("EDElementParseError", parsed[i].err) EXCEPT !.index = i + 3]
   : i \in {k \in 1..Len(parsed) : ~parsed[k].ok}}

\* What collect returns where lines failed to parse: the error of one of them,
\* whichever worker reports first, with the zero-based index of its line.
ParseErrors(parsed) ==
  {[OpenError("EDElementParseError", parsed[i].err) EXCEPT !.index = i - 1]
   : i \in {k \in 1..Len(parsed) : ~parsed[k].ok}}

\* The part of open after the three header lines were taken, up to the checksum
\* comparisons: the set of its possible outcomes, an error or "Checked" with the
\* EDList built. The entry lines are parsed in parallel, under any schedule, and
\* the collected Result holds one of the errors, whichever worker reports first.
OpenLines(lines) ==
  LET version_line == lines[1]
      xor_checksum_line == lines[2]
      fin_checksum_line == lines[3]
      version == get_version_from_line(version_line)
      xor_checksum_string == StripPrefix(xor_checksum_line, XOR_CHECKSUM_PREFIX)
      file_xor_checksum ==
        IF xor_checksum_string.some
        THEN decode_to_slice(xor_checksum_string.rest, HashLen) ELSE [ok |-> FALSE]
      file_final_checksum == StripPrefix(fin_checksum_line, FIN_CHECKSUM_PREFIX)
      entry_lines == Drop(lines, 3)
      parsed == TryFromLines(entry_lines)
      failed == {i \in 1..Len(entry_lines) : ~parsed[i].ok}
  IN IF version = "V1_0" THEN {OpenError("UnsupportedEDListVersion::V1_0", "")}
     ELSE IF version = "MissingIdentifier"
     THEN {OpenError("UnsupportedEDListVersion::MissingIdentifier", "")}
     ELSE IF version = "InvalidVersion"
     THEN {OpenError("UnsupportedEDListVersion::Invalid", "")}
     ELSE IF ~xor_checksum_string.some THEN {OpenError("InvalidXorChecksum", "")}
     ELSE IF ~file_xor_checksum.ok
     THEN {OpenError("UndecodableXorChecksum", file_xor_checksum.err)}
     ELSE IF ~file_final_checksum.some THEN {OpenError("InvalidFinChecksum", "")}
     ELSE IF failed # {} THEN ParseErrors(parsed)
     ELSE {OpenChecked(ParsedElements(collect(parsed, order)), file_xor_checksum.val,
                       file_final_checksum.rest)
           : order \in Schedules(Len(parsed))}

\* EDList::open up to the checksum comparisons, on the manifest file
\* (file.exists, file.bytes): the set of its possible outcomes, where "NoFile"
\* stands for the prompt that follows a failed File::open.
OpenRead(file) ==
  IF ~file.exists THEN {OpenError("NoFile", "")}
  ELSE LET read == ReadLines(file.bytes)
       IN IF ~read.ok THEN {OpenError("IoError", "")}
          ELSE IF Len(read.lines) < 3 THEN {OpenError("ChecksumsMissingError", "")}
          ELSE OpenLines(read.lines)

\* The rest of EDList::open, with the operator's answer to the creation prompt
\* and the filesystem's behaviour for the backup: what open returns.
OpenFinish(outcome, answer, io) ==
  IF outcome.result = "NoFile"
  THEN IF answer = "Yes"
       THEN [result |-> "Ok", detail |-> "Created empty list", has_list |-> TRUE,
             e_d_list |-> create_empty_e_d_list,
             backup |-> [created |-> FALSE, bytes |-> <<>>], index |-> 0]
       ELSE OpenError("CouldNotOpenFileHashesFile", "")
  ELSE IF outcome.result = "Checked"
  THEN LET backup == write_backup(outcome.e_d_list, io)
       IN IF ~backup.ok
          THEN [OpenError("WriteBackupError", io) EXCEPT
                  !.backup = [created |-> backup.created, bytes |-> backup.bytes]]
          ELSE [result |-> "Ok", detail |-> "", has_list |-> TRUE,
                e_d_list |-> outcome.e_d_list,
                backup |-> [created |-> backup.created, bytes |-> backup.bytes],
                index |-> 0]
  ELSE outcome

\* The answers the operator can give where open prompts (it prompts only when
\* the file could not be opened), and what the filesystem can do where open
\* writes the backup (it writes one only after the checks passed).
PromptAnswers(outcome) == IF outcome.result = "NoFile" THEN {"Yes", "No"} ELSE {"No"}
BackupOutcomes(outcome) == IF outcome.result = "Checked" THEN BackupIo ELSE {"ok"}

\* EDList::open: the set of its possible results.
open(file, answer, io) == {OpenFinish(outcome, answer, io) : outcome \in OpenRead(file)}

(***************************************************************************)
(* State.                                                                  *)
(***************************************************************************)
VARIABLES
  has_list,      \* whether the process holds an EDList (open returned Ok)
  element_list,  \* EDList.element_list
  xor_checksum,  \* EDList.xor_checksum
  file_hashes,   \* the file file_hasher_files/file_hashes: [exists, bytes]
  backups,       \* the files under file_hasher_files/hash_file_backups, oldest first
  last,          \* the last operation and what it returned
  fs,            \* the files and links under the root directory, by path
  aside,         \* what sync keeps beside the tree: the files it moved out, by
                 \* path, and the lines of its synclist: [tmp, backup, synclist]
  banlist,       \* EDList.banlist: the banned prefixes
  ghost,         \* history: what was saved, what was read, the alteration of the file
  codec          \* the entry, line and parse result of the codec specifications

vars ==
  <<has_list, element_list, xor_checksum, file_hashes, backups, last, fs, aside, banlist,
    ghost, codec>>
storeVars == <<has_list, element_list, xor_checksum>>
diskVars == <<file_hashes, backups>>
treeVars == <<fs, aside, banlist>>

\* A directory tree without files, as a map from paths.
NoFiles == <<>>
\* A banlist without a banned path (an empty HashMap).
NoBanlist == <<>>
NoAside == [tmp |-> NoFiles, backup |-> NoFiles, synclist |-> <<>>]

NoFile == [exists |-> FALSE, bytes |-> <<>>]
NoLast == [op |-> "none", result |-> "", detail |-> "", index |-> 0, call |-> <<>>]
\* History kept for the properties:
\*   saved, written   the store and the bytes of the last successful write_hash_file
\*   read_exists, read  whether the last open found a file, and its bytes
\*   read_saved       whether those bytes were the ones last written, untouched
\*   fresh            whether the store is as the last open returned it
\*   accepted         the store the last successful open of a file returned
\*   phase            "accepted" after such an open, "altered" once a bit of that
\*                    file was flipped, "reopened" after the open that follows
\*   orig, pos, bit   the file before the flip, the byte and the bit flipped
\*   backups_before   the number of backup files when the last open began
\*   changes          the number of changes made to the tree from outside
\*   ops              the number of create, delete, sort and sync calls so far
\*   lines            the banned-path lines inserted into the banlist, in order
NoGhost ==
  [has_saved |-> FALSE, saved |-> NoEDList, written |-> <<>>,
   read_exists |-> FALSE, read |-> <<>>, read_saved |-> FALSE, fresh |-> FALSE,
   accepted |-> NoEDList, phase |-> "none", tampered |-> FALSE,
   orig |-> <<>>, pos |-> 0, bit |-> 0, backups_before |-> 0, changes |-> 0,
   ops |-> 0, lines |-> <<>>]
NoCodec == [step |-> "none", element |-> <<>>, other |-> <<>>, line |-> <<>>,
            parsed |-> [ok |-> FALSE, err |-> ""]]

\* All strings over an alphabet up to a length.
Strings(alphabet, n) == UNION {[1..k -> alphabet] : k \in 0..n}

(***************************************************************************)
(* SpecCodec: Display and TryFrom of one entry.                            *)
(***************************************************************************)
CodecAlphabet == {Chr["a"], Chr[","], Chr["\\"], Chr[")"], Chr["]"]}
CodecTimes == {0, 7, 105}
CodecVariants ==
  {LinkVariant(t) : t \in Strings(CodecAlphabet, MaxStrLen)}
  \cup {FileVariant(blake2_to_checksum(content)) : content \in {<<>>, Asc(<<"a">>)}}
CodecElements ==
  {from_internal(p, t, v) : p \in Strings(CodecAlphabet, MaxStrLen), t \in CodecTimes,
                            v \in CodecVariants}

CodecIdle ==
  /\ has_list = FALSE /\ element_list = <<>> /\ xor_checksum = ChecksumDefault
  /\ file_hashes = NoFile /\ backups = <<>> /\ last = NoLast /\ ghost = NoGhost
  /\ fs = NoFiles /\ aside = NoAside /\ banlist = NoBanlist

CodecInit ==
  /\ CodecIdle
  /\ \E e \in CodecElements : codec = [NoCodec EXCEPT !.step = "element", !.element = e]

\* format!("{}", element)
CodecDisplay ==
  /\ codec.step = "element"
  /\ codec' = [codec EXCEPT !.step = "line", !.line = EDElementToString(codec.element)]
  /\ UNCHANGED <<storeVars, diskVars, treeVars, last, ghost>>

\* EDElement::try_from(line)
CodecTryFrom ==
  /\ codec.step = "line"
  /\ codec' = [codec EXCEPT !.step = "parsed", !.parsed = EDElementTryFrom(codec.line)]
  /\ UNCHANGED <<storeVars, diskVars, treeVars, last, ghost>>

CodecNext == CodecDisplay \/ CodecTryFrom

SpecCodec == CodecInit /\ [][CodecNext]_vars

\* C6: parsing the serialized line of an entry succeeds and yields an entry equal
\* to it in path, modified_time, variant and element_digest.
C6_ParseSerializeRoundTrip ==
  codec.step = "parsed" =>
    /\ codec.parsed.ok
    /\ codec.parsed.element.path = codec.element.path
    /\ codec.parsed.element.modified_time = codec.element.modified_time
    /\ codec.parsed.element.variant_fields = codec.element.variant_fields
    /\ codec.parsed.element.element_hash = codec.element.element_hash

\* A link entry whose path holds a backslash and a comma and whose target holds
\* a ')' and a ']' has been serialized and parsed.
C6_Witness ==
  /\ codec.step = "parsed"
  /\ codec.element.path = Asc(<<"\\", ",">>)
  /\ codec.element.modified_time = 105
  /\ codec.element.variant_fields = LinkVariant(Asc(<<")", "]">>))

(***************************************************************************)
(* SpecDigest: the element hashes of two entries.                          *)
(***************************************************************************)
DigestAlphabet == {Chr["a"], Chr["NUL"]}
DigestTimes == {0, 97}
DigestVariants ==
  {LinkVariant(t) : t \in Strings(DigestAlphabet, MaxStrLen)}
  \cup {FileVariant(blake2_to_checksum(<<>>))}
\* The fields of the entries drawn: non-empty path, modified time, variant.
DigestFields ==
  {<<p, t, v>> : p \in Strings(DigestAlphabet, MaxStrLen) \ {<<>>}, t \in DigestTimes,
                 v \in DigestVariants}

DigestInit ==
  /\ CodecIdle
  /\ \E f1 \in DigestFields, f2 \in DigestFields :
       codec = [NoCodec EXCEPT !.step = "fields", !.element = f1, !.other = f2]

\* EDElement::from_internal on both.
DigestHash ==
  /\ codec.step = "fields"
  /\ codec' = [codec EXCEPT
                 !.step = "hashed",
                 !.element = from_internal(codec.element[1], codec.element[2], codec.element[3]),
                 !.other = from_internal(codec.other[1], codec.other[2], codec.other[3])]
  /\ UNCHANGED <<storeVars, diskVars, treeVars, last, ghost>>

DigestNext == DigestHash

SpecDigest == DigestInit /\ [][DigestNext]_vars

\* C8: two entries that differ in path, modified_time or variant payload never
\* feed the same byte sequence to the element hash (and so, the hash being free
\* of collisions, never have the same element_digest).
C8_DistinctEntriesDistinctMessages ==
  (/\ codec.step = "hashed"
   /\ \/ codec.element.path # codec.other.path
      \/ codec.element.modified_time # codec.other.modified_time
      \/ VariantBytes(codec.element.variant_fields) # VariantBytes(codec.other.variant_fields))
  => /\ ElementMessage(codec.element.path, codec.element.modified_time,
                       codec.element.variant_fields)
        # ElementMessage(codec.other.path, codec.other.modified_time,
                         codec.other.variant_fields)
     /\ codec.element.element_hash # codec.other.element_hash

(***************************************************************************)
(* The operations on the manifest file.                                    *)
(***************************************************************************)
\* The outcomes of write_hash_file, by what the filesystem does.
WriteIo == {"ok", "ErrorCreatingFile", "WriteError", "FlushError"}
\* The number of backup files after which no further open is modelled.
MaxBackups == 2

\* EDList::write_hash_file: what it returns and the manifest file afterwards.
\* File::create truncates the file before anything is written.
write_hash_file(e_d_list, file, io) ==
  IF io = "ErrorCreatingFile" THEN [result |-> "ErrorCreatingFile", file |-> file]
  ELSE IF io = "WriteError"
  THEN [result |-> "WriteError", file |-> [exists |-> TRUE, bytes |-> <<>>]]
  ELSE [result |-> IF io = "ok" THEN "Ok" ELSE "FlushError",
        file |-> [exists |-> TRUE, bytes |-> write_edlist_to_file(e_d_list)]]

\* The program calls EDList::write_hash_file on its store.
WriteHashFile ==
  /\ has_list
  /\ \E io \in WriteIo :
       LET e_d_list == [element_list |-> element_list, xor_checksum |-> xor_checksum]
           w == write_hash_file(e_d_list, file_hashes, io)
       IN /\ file_hashes' = w.file
          /\ last' = [NoLast EXCEPT !.op = "write_hash_file", !.result = w.result]
          /\ ghost' = [ghost EXCEPT
                         !.has_saved = (w.result = "Ok"),
                         !.saved = IF w.result = "Ok" THEN e_d_list ELSE @,
                         !.written = IF w.result = "Ok" THEN w.file.bytes ELSE @,
                         !.phase = IF @ = "accepted" THEN @ ELSE "none",
                         !.accepted = IF ghost.phase = "accepted" THEN @ ELSE NoEDList,
                         !.orig = <<>>, !.pos = 0, !.bit = 0]
  /\ UNCHANGED <<storeVars, backups, treeVars, codec>>

\* The program starts and calls EDList::open (the steps of open, OpenRead then
\* OpenFinish); the store it held before, if any, is gone with the process that
\* held it. (A run that has gone on to create, delete, sort or sync is followed
\* to its end, not to a restart.)
Open ==
  /\ Len(backups) < MaxBackups /\ ghost.ops = 0
  /\ LET outcomes == OpenRead(file_hashes)
     IN \E outcome \in outcomes :
        \E answer \in PromptAnswers(outcome), io \in BackupOutcomes(outcome) :
         LET r == OpenFinish(outcome, answer, io)
         IN
         /\ has_list' = r.has_list
         /\ element_list' = r.e_d_list.element_list
         /\ xor_checksum' = r.e_d_list.xor_checksum
         /\ backups' = IF r.backup.created THEN Append(backups, r.backup.bytes) ELSE backups
         /\ last' = [op |-> "open", result |-> r.result, detail |-> r.detail,
                     index |-> r.index, call |-> [answer |-> answer]]
         /\ ghost' = [ghost EXCEPT
                        !.read_exists = file_hashes.exists,
                        !.read = file_hashes.bytes,
                        !.read_saved = ghost.has_saved /\ file_hashes.exists
                                       /\ file_hashes.bytes = ghost.written,
                        !.fresh = r.has_list,
                        !.accepted = IF ghost.phase \in {"altered", "reordered"} THEN @
                                     ELSE IF r.has_list /\ file_hashes.exists THEN r.e_d_list
                                     ELSE NoEDList,
                        !.phase = IF @ = "altered" THEN "reopened"
                                  ELSE IF @ = "reordered" THEN "reread"
                                  ELSE IF r.has_list /\ file_hashes.exists THEN "accepted"
                                  ELSE "none",
                        !.orig = IF ghost.phase \in {"altered", "reordered"} THEN @ ELSE <<>>,
                        !.pos = IF ghost.phase = "altered" THEN @ ELSE 0,
                        !.bit = IF ghost.phase = "altered" THEN @ ELSE 0,
                        !.backups_before = Len(backups)]
  /\ UNCHANGED <<file_hashes, treeVars, codec>>

\* u8 with bit k inverted.
FlipBit(b, k) == XorByte(b, 2 ^ k)

\* The storage medium inverts one bit of a manifest file that open has accepted
\* (once in a behaviour).
AlterFile ==
  /\ ghost.phase = "accepted" /\ ~ghost.tampered /\ Len(backups) < MaxBackups
  /\ file_hashes.exists /\ file_hashes.bytes = ghost.read
  /\ \E pos \in 1..Len(file_hashes.bytes), bit \in 0..7 :
       /\ file_hashes' = [file_hashes EXCEPT !.bytes[pos] = FlipBit(@, bit)]
       /\ ghost' = [ghost EXCEPT !.phase = "altered", !.tampered = TRUE,
                                 !.orig = file_hashes.bytes, !.pos = pos, !.bit = bit,
                                 !.has_saved = FALSE]
  /\ last' = [NoLast EXCEPT !.op = "alter"]
  /\ UNCHANGED <<storeVars, backups, treeVars, codec>>

(***************************************************************************)
(* SpecFile: stores saved, manifest files opened, one bit of a file        *)
(* inverted.                                                               *)
(***************************************************************************)
\* Sequences without repetition over S, up to length n.
InjSeqs(S, n) ==
  UNION {{q \in [1..k -> S] : \A i, j \in 1..k : i # j => q[i] # q[j]} : k \in 0..n}

\* A file entry whose digest has a hex letter, and a link entry whose path holds
\* a comma and a 'J' (one bit from LF) and whose target holds a ')' and a
\* backslash.
FileElements ==
  {from_internal(Asc(<<".", "/", "a">>), 105, FileVariant(blake2_to_checksum(Asc(<<"a">>)))),
   from_internal(Asc(<<".", "/", ",", "J">>), 7, LinkVariant(Asc(<<")", "\\">>)))}

\* Stores that satisfy the fold invariant.
FileStores ==
  {EDListNew(l, XorOfElements(l)) : l \in InjSeqs(FileElements, MaxEntries)}

\* Stores whose xor checksum is not the fold of their entries: it is all zero
\* (as the store of create_empty_e_d_list has it), or the fold with its lowest
\* bit inverted.
UnfoldedStores ==
  UNION {{EDListNew(l, x)
          : x \in {ChecksumDefault,
                   [i \in 1..HashLen |-> IF i = 1 THEN XorByte(XorOfElements(l)[i], 1)
                                         ELSE XorOfElements(l)[i]]}}
         : l \in InjSeqs(FileElements, MaxEntries)}
  \ FileStores

\* The text of lines, each ended by eol.
RECURSIVE JoinLines(_, _)
JoinLines(ls, eol) ==
  IF ls = <<>> THEN <<>> ELSE Head(ls) \o eol \o JoinLines(Tail(ls), eol)

\* First lines: the supported version, version 1.0, an unknown tag, an empty
\* tag, a tag without the prefix, a prefix in another case.
VersionLines ==
  {LIST_VERSION_PREFIX \o Asc(<<"1", ".", "1">>),
   LIST_VERSION_PREFIX \o Asc(<<"1", ".", "0">>),
   LIST_VERSION_PREFIX \o Asc(<<"2", ".", "0">>),
   LIST_VERSION_PREFIX \o Asc(<<"1", ".", "1", " ">>),
   LIST_VERSION_PREFIX,
   Asc(<<"1", ".", "0">>),
   Asc(<<"1", ".", "1">>)}

\* The checksum lines of a manifest without entries.
EmptyXorLine == XOR_CHECKSUM_PREFIX \o encode_upper(ChecksumDefault)
EmptyFinLine ==
  FIN_CHECKSUM_PREFIX \o encode_upper(blake2_to_checksum(ChecksumDefault))

\* What follows the first line: nothing, one line, the two checksum lines of the
\* empty manifest, and checksum lines that are wrong in one way each.
HeaderTails ==
  {<<>>,
   <<EmptyXorLine>>,
   <<EmptyXorLine, EmptyFinLine>>,
   <<EmptyXorLine, FIN_CHECKSUM_PREFIX \o encode_upper(ChecksumDefault)>>,
   <<XOR_CHECKSUM_PREFIX \o Asc(<<"0", "1">>), EmptyFinLine>>,
   <<Asc(<<"X", "O", "R">>), EmptyFinLine>>,
   <<EmptyXorLine, Asc(<<"C", "H", "E", "C", "K">>)>>}

\* The entry ./b, 7, link(a) written in ways Display never writes it: a sign, a
\* leading zero, a needless escape, text after the closing bracket.
ForeignElement == from_internal(Asc(<<".", "/", "b">>), 7, LinkVariant(Asc(<<"a">>)))
ForeignLines ==
  {Asc(<<"[", ".", "/", "b", ",", "+", "7", ",", "l", "i", "n", "k", "(", "a", ")", "]">>),
   Asc(<<"[", ".", "/", "b", ",", "0", "7", ",", "l", "i", "n", "k", "(", "a", ")", "]">>),
   Asc(<<"[", ".", "\\", "/", "b", ",", "7", ",", "l", "i", "n", "k", "(", "a", ")", "]">>),
   Asc(<<"[", ".", "/", "b", ",", "7", ",", "l", "i", "n", "k", "(", "a", ")", "]", "]">>),
   Asc(<<"[", ".", "/", "b", ",", "7", ",", "l", "i", "n", "k", "(", "a", ")", "]">>)}

\* Manifest files not written by this program.
ForeignFiles ==
  {JoinLines(<<v>> \o t, <<Chr["LF"]>>) : v \in VersionLines, t \in HeaderTails}
  \cup
  {JoinLines(<<LIST_VERSION_PREFIX \o CURRENT_LIST_VERSION,
               XOR_CHECKSUM_PREFIX \o encode_upper(ForeignElement.element_hash),
               FIN_CHECKSUM_PREFIX
               \o encode_upper(blake2_to_checksum(ForeignElement.element_hash
                                                  \o ForeignElement.element_hash)),
               l>>, <<Chr["LF"]>>) : l \in ForeignLines}
  \cup
  {JoinLines(<<LIST_VERSION_PREFIX \o CURRENT_LIST_VERSION, EmptyXorLine, EmptyFinLine>>,
             <<Chr["CR"], Chr["LF"]>>)}

\* Manifest files with entry lines that do not parse: a line without its
\* opening bracket and a line without its closing bracket, alone, together in
\* either order, and beside the line of an entry.
MalformedLines == {Asc(<<"a">>), Asc(<<"[", "a">>)}
MalformedFiles ==
  {JoinLines(<<LIST_VERSION_PREFIX \o CURRENT_LIST_VERSION, EmptyXorLine, EmptyFinLine>>
             \o entry_lines, <<Chr["LF"]>>)
   : entry_lines \in {q \in InjSeqs(MalformedLines \cup {EDElementToString(ForeignElement)}, 2)
                        : \E i \in 1..Len(q) : q[i] \in MalformedLines}}

\* The entry lines of a manifest file that open has accepted are put in another
\* order, the three lines before them left as they are (once in a behaviour).
ReorderFile ==
  /\ ghost.phase = "accepted" /\ ~ghost.tampered /\ Len(backups) < MaxBackups
  /\ file_hashes.exists /\ file_hashes.bytes = ghost.read
  /\ LET lines == ReadLines(file_hashes.bytes).lines
         entry_lines == Drop(lines, 3)
         places == 1..Len(entry_lines)
     IN \E q \in {o \in [places -> places] : \A i, j \in places : i # j => o[i] # o[j]} :
          LET reordered == [i \in 1..Len(entry_lines) |-> entry_lines[q[i]]]
          IN /\ reordered # entry_lines
             /\ file_hashes' = [file_hashes EXCEPT
                                  !.bytes = JoinLines(SubSeq(lines, 1, 3) \o reordered,
                                                      <<Chr["LF"]>>)]
  /\ ghost' = [ghost EXCEPT !.phase = "reordered", !.tampered = TRUE,
                            !.orig = file_hashes.bytes, !.has_saved = FALSE]
  /\ last' = [NoLast EXCEPT !.op = "reorder"]
  /\ UNCHANGED <<storeVars, backups, treeVars, codec>>

FileInit ==
  /\ backups = <<>> /\ last = NoLast /\ ghost = NoGhost /\ codec = NoCodec
  /\ fs = NoFiles /\ aside = NoAside /\ banlist = NoBanlist
  /\ \/ \E m \in FileStores \cup UnfoldedStores :
          /\ has_list = TRUE /\ element_list = m.element_list
          /\ xor_checksum = m.xor_checksum /\ file_hashes = NoFile
     \/ /\ has_list = FALSE /\ element_list = <<>> /\ xor_checksum = ChecksumDefault
        /\ \/ file_hashes = NoFile
           \/ \E f \in ForeignFiles \cup MalformedFiles :
                file_hashes = [exists |-> TRUE, bytes |-> f]

FileNext == Open \/ WriteHashFile \/ AlterFile \/ ReorderFile

SpecFile == FileInit /\ [][FileNext]_vars

(***************************************************************************)
(* Properties of SpecFile.                                                 *)
(***************************************************************************)
NoLineBreak(str) == \A i \in 1..Len(str) : str[i] # Chr["LF"]

\* The open that just returned read the file exactly as write_hash_file last
\* wrote it.
OpenedSavedFile == last.op = "open" /\ ghost.read_saved

\* C2: for a store that satisfies the fold invariant and has no line break in a
\* path or link target, opening the file that write_hash_file wrote succeeds
\* (the backup being writable) and yields the same entries in the same order
\* and the same xor checksum.
C2_LoadOfSaveIsIdentity ==
  (/\ OpenedSavedFile
   /\ XorOfElements(ghost.saved.element_list) = ghost.saved.xor_checksum
   /\ \A i \in 1..Len(ghost.saved.element_list) :
        /\ NoLineBreak(ghost.saved.element_list[i].path)
        /\ NoLineBreak(VariantBytes(ghost.saved.element_list[i].variant_fields))
   /\ last.result # "WriteBackupError")
  => /\ last.result = "Ok" /\ has_list
     /\ element_list = ghost.saved.element_list
     /\ xor_checksum = ghost.saved.xor_checksum

\* A saved store of two entries, the first with a comma in its path, was opened.
C2_Witness ==
  /\ OpenedSavedFile /\ last.result = "Ok"
  /\ Len(element_list) = 2
  /\ element_list[1].path = Asc(<<".", "/", ",", "J">>)

\* The lines of the file the last open read, and the entries of its entry
\* lines, parsed one after the other in file order.
ReadEntryLines == Drop(ReadLines(ghost.read).lines, 3)
EntriesInFileOrder == ParsedElements(TryFromLines(ReadEntryLines))
\* The final checksum of the entries in file order and the xor checksum of the
\* second line, as text.
FinalChecksumInFileOrder ==
  ChecksumToString(blake2_to_checksum(Blake2bUpdate(
    HashElements(Blake2bNew, EntriesInFileOrder),
    decode_to_slice(StripPrefix(ReadLines(ghost.read).lines[2], XOR_CHECKSUM_PREFIX).rest,
                    HashLen).val)))

C30_EntriesInFileOrder ==
  (/\ last.op = "open" /\ ghost.read_exists
   /\ last.result \in {"Ok", "WriteBackupError", "FinChecksumMismatch"}) =>
    /\ has_list => element_list = EntriesInFileOrder
    /\ last.result = "FinChecksumMismatch"
         <=> StripPrefix(ReadLines(ghost.read).lines[3], FIN_CHECKSUM_PREFIX).rest
             # FinalChecksumInFileOrder

\* A file of two entry lines, the link entry before the file entry, was opened:
\* the store holds the link entry first.
C30_Witness ==
  /\ last.op = "open" /\ ghost.read_exists /\ last.result = "Ok"
  /\ Len(ReadEntryLines) = 2
  /\ element_list[1].path = Asc(<<".", "/", ",", "J">>)
  /\ element_list[2].path = Asc(<<".", "/", "a">>)

\* The entry lines of the file the last open read that do not parse, by their
\* zero-based index among the entry lines.
MalformedRead ==
  {i - 1 : i \in {k \in 1..Len(ReadEntryLines) : ~EDElementTryFrom(ReadEntryLines[k]).ok}}
ParseFailed == last.op = "open" /\ last.result = "EDElementParseError"

\* C31 (as the code has it): where open returns the entry-parse error it
\* returns no store and the error carries the zero-based index of an entry
\* line that does not parse, and that line's error; where one line only does
\* not parse, it is that line, whatever the schedule.
C31_ParseErrorOfAMalformedLine ==
  ParseFailed =>
    /\ ~has_list
    /\ last.index \in MalformedRead
    /\ last.detail = EDElementTryFrom(ReadEntryLines[last.index + 1]).err

\* A file of two entry lines that do not parse was opened and the error is
\* that of the second of them.
C31_Witness ==
  /\ ParseFailed /\ MalformedRead = {0, 1} /\ last.index = 1
  /\ last.detail = EDElementTryFrom(ReadEntryLines[2]).err

\* C31 (as stated): where open returns the entry-parse error, the error
\* carries the zero-based index of the first entry line, in file order, that
\* does not parse.
C31_ParseErrorOfFirstMalformedLine ==
  ParseFailed => \A i \in MalformedRead : last.index <= i

\* C35: write_hash_file writes the xor checksum the store holds, and where
\* that is not the fold of the entries (no path or link target holding a line
\* break) the open of the file written returns XorChecksumMismatch and no
\* store.
C35_UnfoldedStoreIsRejected ==
  /\ ghost.has_saved =>
       ReadLines(ghost.written).lines[2]
         = XOR_CHECKSUM_PREFIX \o encode_upper(ghost.saved.xor_checksum)
  /\ (/\ OpenedSavedFile
      /\ XorOfElements(ghost.saved.element_list) # ghost.saved.xor_checksum
      /\ \A i \in 1..Len(ghost.saved.element_list) :
           /\ NoLineBreak(ghost.saved.element_list[i].path)
           /\ NoLineBreak(VariantBytes(ghost.saved.element_list[i].variant_fields)))
     => last.result = "XorChecksumMismatch" /\ ~has_list

\* A store of two entries whose xor checksum is all zero was saved and the
\* file opened: open returned XorChecksumMismatch.
C35_Witness ==
  /\ OpenedSavedFile /\ last.result = "XorChecksumMismatch"
  /\ Len(ghost.saved.element_list) = 2
  /\ ghost.saved.xor_checksum = ChecksumDefault
  /\ XorOfElements(ghost.saved.element_list) # ChecksumDefault

\* The open that just returned read an accepted file with one bit inverted.
Reopened == last.op = "open" /\ ghost.phase = "reopened"

\* The number of the line that holds position pos, and where that line starts.
LineOfPos(bytes, pos) == 1 + Cardinality({i \in 1..(pos - 1) : bytes[i] = Chr["LF"]})
LineStart(bytes, pos) ==
  LET lfs == {i \in 1..(pos - 1) : bytes[i] = Chr["LF"]}
  IN IF lfs = {} THEN 1 ELSE 1 + CHOOSE i \in lfs : \A j \in lfs : j <= i

\* pos lies in the hex digits of the XORCHECKSUM line.
InXorHex(bytes, pos) ==
  /\ LineOfPos(bytes, pos) = 2
  /\ pos - LineStart(bytes, pos) + 1 > Len(XOR_CHECKSUM_PREFIX)
  /\ pos - LineStart(bytes, pos) + 1 <= Len(XOR_CHECKSUM_PREFIX) + 2 * HashLen

\* pos lies in an entry line (not on the LF that ends it).
InEntryLine(bytes, pos) == LineOfPos(bytes, pos) >= 4 /\ bytes[pos] # Chr["LF"]

IsHexByte(c) ==
  \/ c >= Chr["0"] /\ c <= Chr["9"]
  \/ c >= Chr["A"] /\ c <= Chr["F"]
  \/ c >= Chr["a"] /\ c <= Chr["f"]

\* a and b are the two cases of one hex letter.
CaseOfSameLetter(a, b) ==
  \/ a >= Chr["A"] /\ a <= Chr["F"] /\ b = a + 32
  \/ a >= Chr["a"] /\ a <= Chr["f"] /\ b = a - 32

\* open returned the store that it returned for the unaltered file.
SameStoreAsAccepted ==
  /\ has_list
  /\ element_list = ghost.accepted.element_list
  /\ xor_checksum = ghost.accepted.xor_checksum

\* C3 as stated: after one bit is inverted in the hex digits of the XORCHECKSUM
\* line of an accepted file, open fails with XorChecksumMismatch and returns no
\* store.
C3_XorHexFlipIsXorMismatch ==
  (Reopened /\ InXorHex(ghost.orig, ghost.pos))
  => last.result = "XorChecksumMismatch" /\ ~has_list

\* C3: after one bit is inverted in the hex digits of the XORCHECKSUM line of an
\* accepted file, open fails with XorChecksumMismatch when the byte is still a
\* hex digit of another value, with UndecodableXorChecksum when it is no hex
\* digit, with an I/O error when it is no ASCII byte, each without a store; when
\* only the case of a hex letter changed, open returns the same store as for the
\* unaltered file (or fails to write the backup).
C3_XorHexFlip ==
  (Reopened /\ InXorHex(ghost.orig, ghost.pos))
  => LET was == ghost.orig[ghost.pos]
         now == ghost.read[ghost.pos]
     IN IF now > 127 THEN last.result = "IoError" /\ ~has_list
        ELSE IF ~IsHexByte(now) THEN last.result = "UndecodableXorChecksum" /\ ~has_list
        ELSE IF CaseOfSameLetter(was, now)
        THEN \/ last.result = "Ok" /\ SameStoreAsAccepted
             \/ last.result = "WriteBackupError" /\ ~has_list
        ELSE last.result = "XorChecksumMismatch" /\ ~has_list

\* A hex digit of the XORCHECKSUM line of a file with two entries became another
\* hex digit and open failed with XorChecksumMismatch.
C3_Witness ==
  /\ Reopened /\ InXorHex(ghost.orig, ghost.pos)
  /\ Len(ghost.accepted.element_list) = 2
  /\ IsHexByte(ghost.read[ghost.pos])
  /\ last.result = "XorChecksumMismatch"

\* C4 as stated: after one bit is inverted in an entry line of an accepted file,
\* open fails with FinChecksumMismatch.
C4_EntryFlipIsFinMismatch ==
  (Reopened /\ InEntryLine(ghost.orig, ghost.pos))
  => last.result = "FinChecksumMismatch"

\* C4: after one bit is inverted in an entry line of an accepted file, open
\* fails with XorChecksumMismatch, with an entry parse error or with an I/O error
\* and returns no store, or it finds every entry unchanged and returns the same
\* store as for the unaltered file (or fails to write the backup); it never
\* fails with FinChecksumMismatch.
C4_EntryFlip ==
  (Reopened /\ InEntryLine(ghost.orig, ghost.pos))
  => \/ /\ last.result \in {"XorChecksumMismatch", "EDElementParseError", "IoError"}
        /\ ~has_list
     \/ last.result = "Ok" /\ SameStoreAsAccepted
     \/ last.result = "WriteBackupError" /\ ~has_list

\* A bit of the second entry line of a file with two entries was inverted and
\* open failed with XorChecksumMismatch.
C4_Witness ==
  /\ Reopened /\ InEntryLine(ghost.orig, ghost.pos)
  /\ LineOfPos(ghost.orig, ghost.pos) = 5
  /\ Len(ghost.accepted.element_list) = 2
  /\ last.result = "XorChecksumMismatch"

\* write_hash_file just wrote the store as the last open returned it, and that
\* open read a file.
SavedAfterLoad ==
  /\ last.op = "write_hash_file" /\ last.result = "Ok"
  /\ ghost.fresh /\ ghost.read_exists

\* C5 as stated: opening an accepted file and saving the store writes a file
\* byte-for-byte identical to the one read.
C5_SaveAfterLoadIsIdentical == SavedAfterLoad => file_hashes.bytes = ghost.read

\* C5: opening a file that write_hash_file wrote and saving the store writes a
\* file byte-for-byte identical to the one read.
C5_SaveAfterLoadOfSavedIsIdentical ==
  (SavedAfterLoad /\ ghost.read_saved) => file_hashes.bytes = ghost.read

\* A saved file of two entries was opened and the store saved again.
C5_Witness ==
  /\ SavedAfterLoad /\ ghost.read_saved
  /\ Len(element_list) = 2
  /\ element_list[1].variant_fields.type = "File"

\* The bytes write_edlist_to_file writes for the store held.
StoreBytes ==
  write_edlist_to_file([element_list |-> element_list, xor_checksum |-> xor_checksum])

\* C9 as stated: every open that returns a store has written a backup of it.
C9_BackupOnEveryOpen ==
  (last.op = "open" /\ has_list)
  => /\ Len(backups) = ghost.backups_before + 1
     /\ backups[Len(backups)] = StoreBytes

\* C9: every open that returns a store loaded from the manifest file has written
\* a backup of that store; if the backup could not be written, open returned
\* an error and no store.
C9_BackupOnLoad ==
  last.op = "open"
  => /\ (has_list /\ ghost.read_exists)
        => /\ Len(backups) = ghost.backups_before + 1
           /\ backups[Len(backups)] = StoreBytes
     /\ last.result = "WriteBackupError" => ~has_list

\* open returned a store of two entries loaded from the file.
C9_Witness ==
  /\ last.op = "open" /\ has_list /\ ghost.read_exists
  /\ Len(element_list) = 2

\* The first line of a text, as BufRead::lines yields it.
RECURSIVE UpToLF(_)
UpToLF(bytes) ==
  IF bytes = <<>> \/ Head(bytes) = Chr["LF"] THEN <<>>
  ELSE <<Head(bytes)>> \o UpToLF(Tail(bytes))
FirstLine(bytes) ==
  LET l == UpToLF(bytes)
  IN IF Len(l) < Len(bytes) /\ l # <<>> /\ l[Len(l)] = Chr["CR"]
     THEN SubSeq(l, 1, Len(l) - 1) ELSE l

\* The number of lines of a text.
LineCount(bytes) ==
  Cardinality({i \in 1..Len(bytes) : bytes[i] = Chr["LF"]})
  + (IF bytes # <<>> /\ bytes[Len(bytes)] # Chr["LF"] THEN 1 ELSE 0)

VersionLine(tag) == LIST_VERSION_PREFIX \o tag

\* What C10 says of the open that read the text: a store only for the tag 1.1;
\* when rejects holds, the V1_0 error for the tag 1.0, the Invalid error for any
\* other tag, the MissingIdentifier error for a first line without the prefix.
VersionHandling(rejects) ==
  LET first == FirstLine(ghost.read)
  IN /\ has_list => first = VersionLine(Asc(<<"1", ".", "1">>))
     /\ rejects
        => /\ first = VersionLine(Asc(<<"1", ".", "0">>))
              => last.result = "UnsupportedEDListVersion::V1_0" /\ ~has_list
           /\ (/\ HasPrefix(first, LIST_VERSION_PREFIX)
               /\ first # VersionLine(Asc(<<"1", ".", "0">>))
               /\ first # VersionLine(Asc(<<"1", ".", "1">>)))
              => last.result = "UnsupportedEDListVersion::Invalid" /\ ~has_list
           /\ ~HasPrefix(first, LIST_VERSION_PREFIX)
              => last.result = "UnsupportedEDListVersion::MissingIdentifier" /\ ~has_list

\* C10 as stated: whatever follows the first line.
C10_VersionHandlingOfAnyFile ==
  (last.op = "open" /\ ghost.read_exists) => VersionHandling(TRUE)

\* C10: open returns a store only if the first line is the prefix and the tag
\* 1.1; of a text that can be read and has at least three lines, a first line
\* with the tag 1.0 is rejected with the V1_0 error, any other tag with the
\* Invalid error, a first line without the prefix with the MissingIdentifier
\* error, whatever the checksum lines hold, and no store is returned.
C10_VersionHandling ==
  (last.op = "open" /\ ghost.read_exists)
  => VersionHandling(/\ \A i \in 1..Len(ghost.read) : ghost.read[i] <= 127
                     /\ LineCount(ghost.read) >= 3)

\* A file of version 1.0 whose XORCHECKSUM line is invalid was rejected for its
\* version.
C10_Witness ==
  /\ last.op = "open" /\ ghost.read_exists
  /\ ghost.read = JoinLines(<<VersionLine(Asc(<<"1", ".", "0">>)), Asc(<<"X", "O", "R">>),
                              EmptyFinLine>>, <<Chr["LF"]>>)
  /\ last.result = "UnsupportedEDListVersion::V1_0"

(***************************************************************************)
(* PathBanlist (path_banlist.rs)                                           *)
(***************************************************************************)
\* CharMapper: a Terminator, or More with the HashMap<char, CharMapper> below
\* it; a HashMap is a function from the characters it holds.
Terminator == [kind |-> "Terminator", map |-> <<>>]
More(hashmap) == [kind |-> "More", map |-> hashmap]
EmptyHashMap == <<>>

\* HashMap::insert
HashMapInsert(hashmap, character, char_mapper) == (character :> char_mapper) @@ hashmap

\* A faulty variant of insert_to_banlist: a line that ends where the trie goes
\* on (a More node) leaves the trie as it is.
RECURSIVE insert_to_banlist_keeps_more(_, _)
insert_to_banlist_keeps_more(char_iter, hashmap) ==
  IF char_iter = <<>> THEN [some |-> TRUE, char_mapper |-> Terminator, hashmap |-> hashmap]
  ELSE
  LET character == Head(char_iter)
  IN IF character \in DOMAIN hashmap /\ hashmap[character].kind = "More"
     THEN LET inner == insert_to_banlist_keeps_more(Tail(char_iter), hashmap[character].map)
          IN [some |-> FALSE, char_mapper |-> Terminator,
              hashmap |-> HashMapInsert(hashmap, character, More(inner.hashmap))]
     ELSE IF character \in DOMAIN hashmap
     THEN [some |-> FALSE, char_mapper |-> Terminator, hashmap |-> hashmap]
     ELSE LET inner == insert_to_banlist_keeps_more(Tail(char_iter), EmptyHashMap)
          IN [some |-> FALSE, char_mapper |-> Terminator,
              hashmap |-> HashMapInsert(hashmap, character,
                                        IF inner.some THEN inner.char_mapper
                                        ELSE More(inner.hashmap))]

\* PathBanlist::insert_to_banlist: [some, char_mapper] is the Option it returns,
\* hashmap is the map it was given as the call leaves it.
RECURSIVE insert_to_banlist(_, _)
insert_to_banlist(char_iter, hashmap) ==
  IF char_iter = <<>> THEN [some |-> TRUE, char_mapper |-> Terminator, hashmap |-> hashmap]
  ELSE
  LET character == Head(char_iter)
      Returned(new_char_mapper, now) ==
        [some |-> FALSE, char_mapper |-> Terminator,
         hashmap |-> IF new_char_mapper.some
                     THEN HashMapInsert(now, character, new_char_mapper.char_mapper)
                     ELSE now]
  IN IF character \in DOMAIN hashmap /\ hashmap[character].kind = "More"
     THEN LET inner == insert_to_banlist(Tail(char_iter), hashmap[character].map)
          IN Returned(inner, HashMapInsert(hashmap, character, More(inner.hashmap)))
     ELSE IF character \in DOMAIN hashmap
     THEN Returned([some |-> FALSE], hashmap)
     ELSE LET inner == insert_to_banlist(Tail(char_iter), EmptyHashMap)
          IN Returned([some |-> TRUE,
                       char_mapper |-> IF inner.some THEN inner.char_mapper
                                       ELSE More(inner.hashmap)],
                      hashmap)

\* The loop of is_in_banlist from character i of path on.
RECURSIVE BanlistWalk(_, _, _)
BanlistWalk(hashmap, path, i) ==
  IF i > Len(path) THEN FALSE
  ELSE IF path[i] \notin DOMAIN hashmap THEN FALSE
  ELSE IF hashmap[path[i]].kind = "Terminator" THEN TRUE
  ELSE BanlistWalk(hashmap[path[i]].map, path, i + 1)

\* PathBanlist::is_in_banlist
is_in_banlist(banned_paths, path) == BanlistWalk(banned_paths, path, 1)

\* The banned_paths of PathBanlist::open for a file with these banned-path
\* lines, in their order.
RECURSIVE BannedPaths(_, _)
BannedPaths(lines, banned_paths) ==
  IF lines = <<>> THEN banned_paths
  ELSE BannedPaths(Tail(lines), insert_to_banlist(Head(lines), banned_paths).hashmap)

\* PathBanlist::new_dummy
new_dummy == EmptyHashMap

\* PathBanlist::identify_line: [type, value].
identify_line(line) ==
  IF line = <<>> \/ Head(line) = Chr["#"] THEN [type |-> "Comment", value |-> <<>>]
  ELSE IF StripPrefix(line, FIN_CHECKSUM_PREFIX).some
  THEN [type |-> "Checksum", value |-> StripPrefix(line, FIN_CHECKSUM_PREFIX).rest]
  ELSE [type |-> "BannedPath", value |-> line]

\* What PathBanlist::open returns: Ok with the banlist, or an error without.
BanlistOk(banned_paths) == [result |-> "Ok", banned_paths |-> banned_paths]
BanlistError(result) == [result |-> result, banned_paths |-> EmptyHashMap]

\* A faulty variant of the loop of open: of two checksum lines the later counts.
RECURSIVE BanlistLoopLastChecksum(_, _, _, _, _)
BanlistLoopLastChecksum(lines, i, hasher, file_checksum, banned_paths) ==
  IF i > Len(lines)
  THEN IF ~file_checksum.some THEN BanlistError("MissingChecksum")
       ELSE IF ChecksumToString(blake2_to_checksum(hasher)) = file_checksum.value
       THEN BanlistOk(banned_paths)
       ELSE BanlistError("InvalidChecksum")
  ELSE IF \E k \in 1..Len(lines[i]) : lines[i][k] > 127 THEN BanlistError("IOError")
  ELSE IF identify_line(lines[i]).type = "BannedPath"
  THEN BanlistLoopLastChecksum(lines, i + 1, Blake2bUpdate(hasher, lines[i]), file_checksum,
                               insert_to_banlist(lines[i], banned_paths).hashmap)
  ELSE IF identify_line(lines[i]).type = "Checksum"
  THEN BanlistLoopLastChecksum(lines, i + 1, hasher,
                               [some |-> TRUE, value |-> identify_line(lines[i]).value],
                               banned_paths)
  ELSE BanlistLoopLastChecksum(lines, i + 1, hasher, file_checksum, banned_paths)

\* The loop of PathBanlist::open over the lines of the file, from line i on,
\* and the verification that follows it. A line that is not UTF-8 ends it with
\* an io::Error (the text of the model is ASCII: a byte above 127 is invalid).
RECURSIVE BanlistLoop(_, _, _, _, _)
BanlistLoop(lines, i, hasher, file_checksum, banned_paths) ==
  IF i > Len(lines)
  THEN IF ~file_checksum.some THEN BanlistError("MissingChecksum")
       ELSE IF ChecksumToString(blake2_to_checksum(hasher)) = file_checksum.value
       THEN BanlistOk(banned_paths)
       ELSE BanlistError("InvalidChecksum")
  ELSE IF \E k \in 1..Len(lines[i]) : lines[i][k] > 127 THEN BanlistError("IOError")
  ELSE IF identify_line(lines[i]).type = "BannedPath"
  THEN BanlistLoop(lines, i + 1, Blake2bUpdate(hasher, lines[i]), file_checksum,
                   insert_to_banlist(lines[i], banned_paths).hashmap)
  ELSE IF identify_line(lines[i]).type = "Checksum"
  THEN IF file_checksum.some THEN BanlistError("DuplicateChecksum")
       ELSE BanlistLoop(lines, i + 1, hasher,
                        [some |-> TRUE, value |-> identify_line(lines[i]).value],
                        banned_paths)
  ELSE BanlistLoop(lines, i + 1, hasher, file_checksum, banned_paths)

\* PathBanlist::create: the file it writes, the three default lines and the
\* checksum line, which no line break ends.
def_banned_list ==
  <<Asc(<<".", "/", "l", "o", "s", "t", "+", "f", "o", "u", "n", "d">>),
    Asc(<<".", "/", ".", "T", "r", "a", "s", "h", "-", "1", "0", "0", "0", "/">>),
    Asc(<<".", "/", "f", "i", "l", "e", "_", "h", "a", "s", "h", "e", "r", "_",
          "f", "i", "l", "e", "s", "/">>)>>
BanlistCreated ==
  JoinLines(def_banned_list, <<Chr["LF"]>>)
  \o FIN_CHECKSUM_PREFIX
  \o ChecksumToString(blake2_to_checksum(Blake2bUpdate(Blake2bNew, Concat(def_banned_list))))

\* PathBanlist::open of the file ./file_hasher_files/banlist ([exists, bytes]):
\* [result, banned_paths, file]. Where the file cannot be opened the operator
\* is asked whether to create one (answer), and create may fail (io).
BanlistIo == {"ok", "CreatingFileHasherDir", "CreatingBanlist", "WriteFileError"}
PathBanlistOpenFile(bytes) ==
  BanlistLoop(SplitLines(bytes, <<>>), 1, Blake2bNew, [some |-> FALSE, value |-> <<>>],
              EmptyHashMap)
PathBanlistOpen(file, answer, io) ==
  IF file.exists THEN [opened |-> PathBanlistOpenFile(file.bytes), file |-> file]
  ELSE IF answer = "NO" THEN [opened |-> BanlistError("UserDeniedNewList"), file |-> file]
  ELSE IF io \in {"CreatingFileHasherDir", "CreatingBanlist"}
  THEN [opened |-> BanlistError("NewPathBanlistError"), file |-> file]
  ELSE IF io = "WriteFileError"
  THEN [opened |-> BanlistError("NewPathBanlistError"),
        file |-> [exists |-> TRUE, bytes |-> <<>>]]
  ELSE [opened |-> PathBanlistOpenFile(BanlistCreated),
        file |-> [exists |-> TRUE, bytes |-> BanlistCreated]]

(***************************************************************************)
(* SpecBanlist: banned-path lines are inserted into an empty banlist, as   *)
(* PathBanlist::open does for the lines of the banlist file.               *)
(***************************************************************************)
BanAlphabet == {Chr["/"], Chr["a"]}
\* The number of lines inserted, and the length of a line.
MaxBanLines == 3
MaxBanLineLen == 3
\* identify_line takes an empty line for a comment: a banned path has a character.
BanLines == Strings(BanAlphabet, MaxBanLineLen) \ {<<>>}
\* The paths asked about: one character longer than the longest line.
BanPaths == Strings(BanAlphabet, MaxBanLineLen + 1)

BanlistInit ==
  /\ has_list = FALSE /\ element_list = <<>> /\ xor_checksum = ChecksumDefault
  /\ file_hashes = NoFile /\ backups = <<>> /\ last = NoLast /\ ghost = NoGhost
  /\ codec = NoCodec
  /\ fs = NoFiles /\ aside = NoAside /\ banlist = NoBanlist

\* PathBanlist::open reads one more banned-path line.
InsertLine ==
  /\ Len(ghost.lines) < MaxBanLines
  /\ \E line \in BanLines :
       /\ banlist' = insert_to_banlist(line, banlist).hashmap
       /\ ghost' = [ghost EXCEPT !.lines = Append(@, line)]
  /\ UNCHANGED <<storeVars, diskVars, last, fs, aside, codec>>

BanlistNext == InsertLine

SpecBanlist == BanlistInit /\ [][BanlistNext]_vars

\* C11: whatever lines were inserted and in whatever order, is_in_banlist(p)
\* holds exactly when one of the inserted lines is a prefix of p (so a banned
\* path stays banned under any suffix, and a line that extends or shortens an
\* earlier one loses no ban).
C11_BannedIffPrefixInserted ==
  \A p \in BanPaths :
    is_in_banlist(banlist, p)
    <=> \E i \in 1..Len(ghost.lines) : HasPrefix(p, ghost.lines[i])

\* A line was inserted, then a longer one that continues it, then a shorter one
\* that both continue; a path under the longest is banned.
C11_Witness ==
  /\ Len(ghost.lines) = 3
  /\ ghost.lines[1] = <<Chr["/"], Chr["a"]>>
  /\ ghost.lines[2] = <<Chr["/"], Chr["a"], Chr["/"]>>
  /\ ghost.lines[3] = <<Chr["/"]>>
  /\ is_in_banlist(banlist, <<Chr["/"], Chr["a"], Chr["/"], Chr["a"]>>)

(***************************************************************************)
(* The filesystem as the program sees it.                                  *)
(***************************************************************************)
NoObject == [kind |-> "none", data |-> <<>>, modified_time |-> 0]
DirObject == [kind |-> "dir", data |-> <<>>, modified_time |-> 0]
FileObject(content, modified_time) ==
  [kind |-> "file", data |-> content, modified_time |-> modified_time]
LinkObject(link_target, modified_time) ==
  [kind |-> "link", data |-> link_target, modified_time |-> modified_time]
\* What is neither a file, a link nor a directory (a pipe, a socket, a device).
OtherObject(modified_time) == [kind |-> "other", data |-> <<>>, modified_time |-> modified_time]

\* fs::symlink_metadata: a tree holds the files and links by path; a directory
\* is a path that others continue.
symlink_metadata(files, path) ==
  IF path \in DOMAIN files THEN files[path]
  ELSE IF \E q \in DOMAIN files : HasPrefix(q, path \o <<Chr["/"]>>) THEN DirObject
  ELSE NoObject

\* Path::parent: the path without its last component.
Parent(path) ==
  LET slashes == {i \in 1..Len(path) : path[i] = Chr["/"]}
  IN IF path = <<>> \/ path = <<Chr["/"]>> THEN [some |-> FALSE, path |-> <<>>]
     ELSE IF slashes = {} THEN [some |-> TRUE, path |-> <<>>]
     ELSE [some |-> TRUE,
           path |-> SubSeq(path, 1, (CHOOSE i \in slashes : \A j \in slashes : j <= i) - 1)]

\* Path::join
Join(dir, name) ==
  IF name # <<>> /\ Head(name) = Chr["/"] THEN name
  ELSE IF dir = <<>> THEN name
  ELSE IF dir[Len(dir)] = Chr["/"] THEN dir \o name
  ELSE dir \o <<Chr["/"]>> \o name

\* File::open(path).is_ok(): links are followed (up to depth of them); the
\* link targets of the model are plain names, so that a joined path names its
\* object as it stands.
RECURSIVE CanOpen(_, _, _)
CanOpen(files, path, depth) ==
  LET metadata == symlink_metadata(files, path)
  IN IF metadata.kind = "none" THEN FALSE
     ELSE IF metadata.kind # "link" THEN TRUE
     ELSE /\ depth > 0
          /\ Parent(path).some
          /\ CanOpen(files, Join(Parent(path).path, metadata.data), depth - 1)

\* The number of links File::open follows in the model.
MaxLinkDepth == 2

\* EDElement::verify_link_path
verify_link_path(files, path, link_target) ==
  /\ Parent(path).some
  /\ CanOpen(files, Join(Parent(path).path, link_target), MaxLinkDepth)

\* EDElement::hash_file of a file whose every read fills the buffer or reaches
\* the end of the file.
hash_file(content) == blake2_to_checksum(Blake2bUpdate(Blake2bNew, content))

\* The size of the buffer of hash_file (40 MiB in the code).
BufferSize == 2

\* The loop of EDElement::hash_file over a file of which pos bytes are read:
\* the k-th call of read returns reads[k] bytes at most (the buffer's size
\* once reads is used up), never more than are left and none at the end of
\* the file; what it returns is fed to the hasher, and a read that did not
\* fill the buffer ends the loop.
RECURSIVE hash_file_loop(_, _, _, _, _)
hash_file_loop(content, pos, hasher, reads, k) ==
  LET asked == IF k <= Len(reads) THEN reads[k] ELSE BufferSize
      result_size == IF asked < Len(content) - pos THEN asked ELSE Len(content) - pos
      fed == Blake2bUpdate(hasher, SubSeq(content, pos + 1, pos + result_size))
  IN IF result_size # BufferSize THEN blake2_to_checksum(fed)
     ELSE hash_file_loop(content, pos + result_size, fed, reads, k + 1)

\* EDElement::from_path: [ok, element] or [ok = FALSE, err]; on what is neither
\* a file nor a link, read_link(..).unwrap() panics.
from_path(files, path) ==
  LET metadata == symlink_metadata(files, path)
  IN IF metadata.kind = "none" THEN [ok |-> FALSE, err |-> "Error getting metadata"]
     ELSE IF metadata.kind = "file"
     THEN [ok |-> TRUE,
           element |-> from_internal(path, metadata.modified_time,
                                     FileVariant(hash_file(metadata.data)))]
     ELSE IF metadata.kind = "link"
     THEN IF verify_link_path(files, path, metadata.data)
          THEN [ok |-> TRUE,
                element |-> from_internal(path, metadata.modified_time,
                                          LinkVariant(metadata.data))]
          ELSE [ok |-> FALSE, err |-> "Error opening file linked to"]
     ELSE [ok |-> FALSE, err |-> "panic"]

\* EDElement::test_metadata: "Ok" or the error.
test_metadata(files, e) ==
  LET metadata == symlink_metadata(files, e.path)
  IN IF metadata.kind = "none" THEN "Could not open path"
     ELSE IF metadata.kind = "dir" THEN "Path is a directory"
     ELSE IF metadata.modified_time # e.modified_time THEN "different modified time"
     ELSE "Ok"

\* File::open of a path and the reading of it by hash_file, links followed:
\* [ok, data] or [ok = FALSE, err]. A directory opens and cannot be read.
RECURSIVE ReadAt(_, _, _)
ReadAt(files, path, depth) ==
  LET metadata == symlink_metadata(files, path)
  IN IF metadata.kind = "none" THEN [ok |-> FALSE, err |-> "OpenFileError"]
     ELSE IF metadata.kind = "dir" THEN [ok |-> FALSE, err |-> "FileHashingError"]
     ELSE IF metadata.kind # "link" THEN [ok |-> TRUE, data |-> metadata.data]
     ELSE IF depth > 0 /\ Parent(path).some
     THEN ReadAt(files, Join(Parent(path).path, metadata.data), depth - 1)
     ELSE [ok |-> FALSE, err |-> "OpenFileError"]

\* The File arm of test_integrity, given what was read at the path.
TestFile(read, file_checksum, time_changed) ==
  IF ~read.ok THEN read.err
  ELSE IF hash_file(read.data) = file_checksum
  THEN IF time_changed THEN "TimeChangedButFileCorrectError" ELSE "Ok"
  ELSE IF time_changed THEN "TimeChangedAndFileChanged"
  ELSE "InvalidChecksum"

\* The Link arm of test_integrity, given the metadata of the path;
\* read_link(..).unwrap() panics on what is no link.
TestLink(files, path, metadata, link_target, time_changed) ==
  IF metadata.kind # "link" THEN "panic"
  ELSE IF metadata.data = link_target
  THEN IF time_changed THEN "LinkTargetValidTimeChanged"
       ELSE IF verify_link_path(files, path, metadata.data) THEN "Ok"
       ELSE "UnableToOpenLinkTarget"
  ELSE IF time_changed THEN "LinkTargetInvalidTimeChanged"
  ELSE "LinkTargetInvalid"

\* test_integrity after symlink_metadata, whose outcome is metadata.
TestObject(files, e, metadata) ==
  IF metadata.kind = "none" THEN "GetMetaDataError"
  ELSE IF metadata.kind = "dir" THEN "PathIsDirectory"
  ELSE IF e.variant_fields.type = "File"
  THEN TestFile(ReadAt(files, e.path, MaxLinkDepth), e.variant_fields.file_checksum,
                metadata.modified_time # e.modified_time)
  ELSE TestLink(files, e.path, metadata, e.variant_fields.link_target,
                metadata.modified_time # e.modified_time)

\* EDElement::test_integrity: "Ok", the error, or "panic".
test_integrity(files, e) == TestObject(files, e, symlink_metadata(files, e.path))

(***************************************************************************)
(* EDList (e_d_list.rs): verify, index, create, delete, sort               *)
(***************************************************************************)
\* An error of verify: its kind and the path of the entry.
VerifyError(kind, path) == [kind |-> kind, path |-> path]

RECURSIVE verify_loop(_, _, _, _, _)
\* One turn of the loop of verify_loop, given what test_integrity returned: a
\* panic ends the loop and the program.
VerifyTurn(result, list, i, error_list, files, banned_paths) ==
  IF result = "panic" THEN [panicked |-> TRUE, error_list |-> error_list]
  ELSE verify_loop(list, i + 1,
                   error_list
                     \o (IF result = "Ok" THEN <<>> ELSE <<VerifyError(result, list[i].path)>>)
                     \o (IF is_in_banlist(banned_paths, list[i].path)
                         THEN <<VerifyError("PathInBanlist", list[i].path)>> ELSE <<>>),
                   files, banned_paths)

\* EDList::verify_loop from element i on: [panicked, error_list].
verify_loop(list, i, error_list, files, banned_paths) ==
  IF i > Len(list) THEN [panicked |-> FALSE, error_list |-> error_list]
  ELSE VerifyTurn(test_integrity(files, list[i]), list, i, error_list, files, banned_paths)

\* What verify and verify_links select of the list: all of it, the elements
\* whose path has a prefix, the links.
Selected(list, selection) ==
  LET HasIt(e) == HasPrefix(e.path, selection.prefix)
      IsLink(e) == e.variant_fields.type = "Link"
  IN IF selection.only = "prefix" THEN SelectSeq(list, HasIt)
     ELSE IF selection.only = "links" THEN SelectSeq(list, IsLink)
     ELSE list

\* EDList::verify (selection.only "all" or "prefix") and EDList::verify_links.
verify(e_d_list, selection, files, banned_paths) ==
  verify_loop(Selected(e_d_list.element_list, selection), 1, <<>>, files, banned_paths)

\* The orders in which the elements of a finite set can come.
RECURSIVE Orders(_)
Orders(S) ==
  IF S = {} THEN {<<>>}
  ELSE UNION {{<<x>> \o q : q \in Orders(S \ {x})} : x \in S}

\* read_dir(path): the names of the entries of a directory of the tree.
ReadDir(files, path) ==
  {LET rest == Drop(q, Len(path) + 1)
       slashes == {i \in 1..Len(rest) : rest[i] = Chr["/"]}
   IN IF slashes = {} THEN rest
      ELSE SubSeq(rest, 1, (CHOOSE i \in slashes : \A j \in slashes : i <= j) - 1)
   : q \in {f \in DOMAIN files : HasPrefix(f, path \o <<Chr["/"]>>)}}

\* A faulty variant of index: the banlist is asked about directories only, a
\* file or link is listed whatever its path.
RECURSIVE index_bans_directories_only(_, _, _)
RECURSIVE IndexLoopBansDirectoriesOnly(_, _, _, _)
IndexLoopBansDirectoriesOnly(files, banned_paths, path, entries) ==
  IF entries = <<>> THEN {<<>>}
  ELSE LET file_path == path \o <<Chr["/"]>> \o Head(entries)
           file_type == symlink_metadata(files, file_path).kind
           found == IF file_type = "dir"
                    THEN IF is_in_banlist(banned_paths, file_path) THEN {<<>>}
                         ELSE index_bans_directories_only(files, banned_paths, file_path)
                    ELSE IF file_type \in {"file", "link"} THEN {<<file_path>>}
                    ELSE {<<>>}
       IN {a \o b : a \in found,
                    b \in IndexLoopBansDirectoriesOnly(files, banned_paths, path,
                                                       Tail(entries))}
index_bans_directories_only(files, banned_paths, path) ==
  UNION {IndexLoopBansDirectoriesOnly(files, banned_paths, path, entries)
         : entries \in Orders(ReadDir(files, path))}

\* The loop of index over the entries read_dir yielded: the lists it can push.
\* An entry whose composed path is in the banlist is skipped, a directory is
\* indexed in its turn, a file or link is listed, anything else is reported and
\* left out.
RECURSIVE index(_, _, _)
RECURSIVE IndexLoop(_, _, _, _)
IndexLoop(files, banned_paths, path, entries) ==
  IF entries = <<>> THEN {<<>>}
  ELSE LET file_path == path \o <<Chr["/"]>> \o Head(entries)
           file_type == symlink_metadata(files, file_path).kind
           found == IF is_in_banlist(banned_paths, file_path) THEN {<<>>}
                    ELSE IF file_type = "dir" THEN index(files, banned_paths, file_path)
                    ELSE IF file_type \in {"file", "link"} THEN {<<file_path>>}
                    ELSE {<<>>}
       IN {a \o b : a \in found, b \in IndexLoop(files, banned_paths, path, Tail(entries))}

\* EDList::index(path): the lists it can return; read_dir yields the entries of
\* a directory in an order of its own.
index(files, banned_paths, path) ==
  UNION {IndexLoop(files, banned_paths, path, entries)
         : entries \in Orders(ReadDir(files, path))}

(***************************************************************************)
(* SpecIndex: index over trees and banlists.                               *)
(***************************************************************************)
\* The directory ./a, its neighbours ./a- and ./a2 and its subdirectory ./a/b.
IndexPaths ==
  {Asc(<<".", "/", "a", "/", "c">>), Asc(<<".", "/", "a", "-", "/", "c">>),
   Asc(<<".", "/", "a", "2", "/", "c">>), Asc(<<".", "/", "a", "/", "b", "/", "c">>)}
IndexObjects == {FileObject(Asc(<<"a">>), 7), LinkObject(Asc(<<"c">>), 7), OtherObject(7)}
IndexTrees == UNION {[S -> IndexObjects] : S \in SUBSET IndexPaths}
IndexBanLines ==
  {Asc(<<".", "/", "a">>), Asc(<<".", "/", "a", "/">>), Asc(<<".", "/", "a", "/", "b">>),
   Asc(<<".", "/", "a", "2", "/", "c">>)}
MaxIndexBanLines == 1
IndexBans == {lines \in Strings(IndexBanLines, MaxIndexBanLines) : TRUE}

IndexInit ==
  /\ has_list = TRUE /\ element_list = <<>> /\ xor_checksum = ChecksumDefault
  /\ file_hashes = NoFile /\ backups = <<>>
  /\ fs \in IndexTrees /\ aside = NoAside
  /\ \E lines \in IndexBans :
       /\ banlist = BannedPaths(lines, EmptyHashMap)
       /\ ghost = [NoGhost EXCEPT !.lines = lines]
  /\ last = NoLast /\ codec = NoCodec

\* create calls index(".") and gets a list.
Index ==
  /\ last.op = "none"
  /\ \E index_list \in index(fs, banlist, Asc(<<".">>)) :
       last' = [NoLast EXCEPT !.op = "index", !.result = "Ok", !.call = index_list]
  /\ UNCHANGED <<storeVars, diskVars, treeVars, ghost, codec>>

IndexNext == Index

SpecIndex == IndexInit /\ [][IndexNext]_vars

\* Whether one of the inserted lines is a string prefix of a path.
LineIsPrefixOf(path) == \E i \in 1..Len(ghost.lines) : HasPrefix(path, ghost.lines[i])
\* The paths of the directories above a path and below the start directory.
AncestorPaths(path) ==
  {SubSeq(path, 1, i - 1) : i \in {j \in 3..Len(path) : path[j] = Chr["/"]}}
InList(list, path) == \E i \in 1..Len(list) : list[i] = path

\* C12: index lists a path (once) exactly when its object is a file or a link,
\* no banned line is a prefix of the path and none is a prefix of the path of a
\* directory above it; with ./a banned, nothing under ./a- and ./a2 is listed;
\* with ./a/ banned, what is under ./a- is listed and nothing under ./a is.
C12_IndexedIffNotBanned ==
  last.op = "index" =>
    LET list == last.call
    IN /\ \A i, j \in 1..Len(list) : i # j => list[i] # list[j]
       /\ \A path \in IndexPaths :
            InList(list, path)
              <=> /\ path \in DOMAIN fs /\ fs[path].kind \in {"file", "link"}
                  /\ ~LineIsPrefixOf(path)
                  /\ \A dir \in AncestorPaths(path) : ~LineIsPrefixOf(dir)
       /\ \A i \in 1..Len(list) : list[i] \in IndexPaths
       /\ ghost.lines = <<Asc(<<".", "/", "a">>)>> => list = <<>>
       /\ ghost.lines = <<Asc(<<".", "/", "a", "/">>)>> =>
            /\ \A i \in 1..Len(list) : ~HasPrefix(list[i], Asc(<<".", "/", "a", "/">>))
            /\ \A path \in {Asc(<<".", "/", "a", "-", "/", "c">>),
                            Asc(<<".", "/", "a", "2", "/", "c">>)} :
                 (path \in DOMAIN fs /\ fs[path].kind \in {"file", "link"})
                   => InList(list, path)

\* With ./a/ banned and files and links under ./a, ./a/b, ./a- and ./a2, index
\* has listed the two that lie beside ./a.
C12_Witness ==
  /\ last.op = "index" /\ ghost.lines = <<Asc(<<".", "/", "a", "/">>)>>
  /\ DOMAIN fs = IndexPaths
  /\ \A path \in IndexPaths : fs[path].kind \in {"file", "link"}
  /\ Len(last.call) = 2
  /\ InList(last.call, Asc(<<".", "/", "a", "-", "/", "c">>))

\* A faulty variant of add_e_d_element: the xor checksum is not updated.
add_e_d_element_no_xor(e_d_list, element) ==
  [element_list |-> Append(e_d_list.element_list, element),
   xor_checksum |-> e_d_list.xor_checksum]

\* EDList::add_e_d_element
add_e_d_element(e_d_list, element) ==
  [element_list |-> Append(e_d_list.element_list, element),
   xor_checksum |-> ChecksumXor(e_d_list.xor_checksum, element.element_hash)]

\* A faulty variant of the loop of create: it ends at the first path whose
\* entry cannot be made.
RECURSIVE CreateLoopEndsAtError(_, _, _, _)
CreateLoopEndsAtError(e_d_list, pending_hashing, files, errors) ==
  IF pending_hashing = <<>> THEN [e_d_list |-> e_d_list, errors |-> errors]
  ELSE LET result == from_path(files, Head(pending_hashing))
       IN IF result.ok
          THEN CreateLoopEndsAtError(add_e_d_element(e_d_list, result.element),
                                     Tail(pending_hashing), files, errors)
          ELSE [e_d_list |-> e_d_list, errors |-> Append(errors, Head(pending_hashing))]

\* The loop of create over pending_hashing: [e_d_list, errors]; an error is
\* kept as the path it is about.
RECURSIVE CreateLoop(_, _, _, _)
CreateLoop(e_d_list, pending_hashing, files, errors) ==
  IF pending_hashing = <<>> THEN [e_d_list |-> e_d_list, errors |-> errors]
  ELSE LET result == from_path(files, Head(pending_hashing))
       IN IF result.ok
          THEN CreateLoop(add_e_d_element(e_d_list, result.element), Tail(pending_hashing),
                          files, errors)
          ELSE CreateLoop(e_d_list, Tail(pending_hashing), files,
                          Append(errors, Head(pending_hashing)))

\* EDList::create, given the list index returned: [e_d_list, errors].
create(e_d_list, files, index_list) ==
  LET existing_paths ==
        {e_d_list.element_list[i].path : i \in 1..Len(e_d_list.element_list)}
      NotExisting(path) == path \notin existing_paths
  IN CreateLoop(e_d_list, SelectSeq(index_list, NotExisting), files, <<>>)

\* A faulty variant of CreateAfterIndex: the paths found before the walk failed
\* are hashed and added before the error is returned.
CreateAfterIndexAddsFound(e_d_list, files, indexed) ==
  LET created == create(e_d_list, files, indexed.list)
  IN [result |-> IF indexed.ok THEN "Ok" ELSE "CantGetSubDirError",
      e_d_list |-> created.e_d_list, errors |-> created.errors]

\* EDList::create from the return of index on: the error of the walk is
\* returned at once (the ? operator), what the walk had found is dropped;
\* otherwise the loop runs and create returns Ok with the errors of the loop.
CreateAfterIndex(e_d_list, files, indexed) ==
  IF ~indexed.ok
  THEN [result |-> "CantGetSubDirError", e_d_list |-> e_d_list, errors |-> <<>>]
  ELSE LET created == create(e_d_list, files, indexed.list)
       IN [result |-> "Ok", e_d_list |-> created.e_d_list, errors |-> created.errors]

\* The answers to "Do you wish to delete this path?".
YesNoAuto == {"Yes", "No", "ContYes", "ContNo"}

\* What the loop of delete returns from an element on, with the element put
\* before the elements the operator was asked about where he was asked about it.
Asked(asked, i, returned) ==
  [returned EXCEPT !.prompted = IF asked THEN <<i>> \o @ ELSE @]

\* A faulty variant of the loop of delete: a continued answer is taken for the
\* one element and is not kept for the elements after it.
RECURSIVE DeleteLoopForgetsAuto(_, _, _, _, _, _, _, _)
DeleteLoopForgetsAuto(old_list, i, new_list, xor_checksum_now, deleted_paths, auto_action, answers, env) ==
  IF i > Len(old_list)
  THEN [e_d_list |-> [element_list |-> new_list, xor_checksum |-> xor_checksum_now],
        deleted_paths |-> deleted_paths, prompted |-> <<>>]
  ELSE
  LET e_d_element == old_list[i]
      error == \/ is_in_banlist(env.banned_paths, e_d_element.path)
               \/ test_metadata(env.files, e_d_element) # "Ok"
  IN IF error /\ answers[i] \in {"Yes", "ContYes"}
     THEN Asked(error, i,
                DeleteLoopForgetsAuto(old_list, i + 1, new_list,
                                      ChecksumXor(xor_checksum_now, e_d_element.element_hash),
                                      Append(deleted_paths, e_d_element.path), auto_action,
                                      answers, env))
     ELSE Asked(error, i,
                DeleteLoopForgetsAuto(old_list, i + 1, Append(new_list, e_d_element),
                                      xor_checksum_now, deleted_paths, auto_action, answers,
                                      env))

\* A faulty variant of the loop of delete: the operator is asked about every
\* faulty element, and what he continued with decides all the same.
RECURSIVE DeleteLoopAsksAgain(_, _, _, _, _, _, _, _)
DeleteLoopAsksAgain(old_list, i, new_list, xor_checksum_now, deleted_paths, auto_action, answers, env) ==
  IF i > Len(old_list)
  THEN [e_d_list |-> [element_list |-> new_list, xor_checksum |-> xor_checksum_now],
        deleted_paths |-> deleted_paths, prompted |-> <<>>]
  ELSE
  LET e_d_element == old_list[i]
      error == \/ is_in_banlist(env.banned_paths, e_d_element.path)
               \/ test_metadata(env.files, e_d_element) # "Ok"
      answer == IF auto_action # "None" THEN auto_action
                ELSE IF answers[i] \in {"Yes", "ContYes"} THEN "Yes" ELSE "No"
      next_auto == IF error /\ auto_action = "None" /\ answers[i] = "ContYes" THEN "Yes"
                   ELSE IF error /\ auto_action = "None" /\ answers[i] = "ContNo" THEN "No"
                   ELSE auto_action
  IN IF error /\ answer = "Yes"
     THEN Asked(error, i,
                DeleteLoopAsksAgain(old_list, i + 1, new_list,
                                    ChecksumXor(xor_checksum_now, e_d_element.element_hash),
                                    Append(deleted_paths, e_d_element.path), next_auto,
                                    answers, env))
     ELSE Asked(error, i,
                DeleteLoopAsksAgain(old_list, i + 1, Append(new_list, e_d_element),
                                    xor_checksum_now, deleted_paths, next_auto, answers, env))

\* The loop of delete from element i of old_list on; answers[i] is what the
\* operator says if asked about element i: [e_d_list, deleted_paths, prompted],
\* prompted the elements he was asked about, in the order of the questions.
RECURSIVE DeleteLoop(_, _, _, _, _, _, _, _)
DeleteLoop(old_list, i, new_list, xor_checksum_now, deleted_paths, auto_action, answers, env) ==
  IF i > Len(old_list)
  THEN [e_d_list |-> [element_list |-> new_list, xor_checksum |-> xor_checksum_now],
        deleted_paths |-> deleted_paths, prompted |-> <<>>]
  ELSE
  LET e_d_element == old_list[i]
      error == \/ is_in_banlist(env.banned_paths, e_d_element.path)
               \/ test_metadata(env.files, e_d_element) # "Ok"
      asked == error /\ auto_action = "None"
      answer == IF auto_action # "None" THEN auto_action
                ELSE IF answers[i] \in {"Yes", "ContYes"} THEN "Yes" ELSE "No"
      next_auto == IF asked /\ answers[i] = "ContYes" THEN "Yes"
                   ELSE IF asked /\ answers[i] = "ContNo" THEN "No"
                   ELSE auto_action
  IN IF error /\ answer = "Yes"
     THEN Asked(asked, i,
                DeleteLoop(old_list, i + 1, new_list,
                           ChecksumXor(xor_checksum_now, e_d_element.element_hash),
                           Append(deleted_paths, e_d_element.path), next_auto, answers, env))
     ELSE Asked(asked, i,
                DeleteLoop(old_list, i + 1, Append(new_list, e_d_element), xor_checksum_now,
                           deleted_paths, next_auto, answers, env))

\* A faulty variant of delete: the loop pushes to the list the store holds,
\* which was not taken out of it.
delete_into_old_list(e_d_list, files, banned_paths, answers) ==
  DeleteLoop(e_d_list.element_list, 1, e_d_list.element_list, e_d_list.xor_checksum, <<>>,
             "None", answers, [files |-> files, banned_paths |-> banned_paths])

\* The test of delete after its loop: the number of deleted paths against the
\* old length less the new one; the panic where they differ.
DeletedCount(e_d_list, deleted) ==
  IF Len(deleted.deleted_paths)
       # Len(e_d_list.element_list) - Len(deleted.e_d_list.element_list)
  THEN "Panic" ELSE "Ok"

\* EDList::delete
delete(e_d_list, files, banned_paths, answers) ==
  DeleteLoop(e_d_list.element_list, 1, <<>>, e_d_list.xor_checksum, <<>>, "None", answers,
             [files |-> files, banned_paths |-> banned_paths])

\* str::split(c): the pieces between the occurrences of c (one piece at least).
RECURSIVE Split(_, _, _)
Split(str, c, cur) ==
  IF str = <<>> THEN <<cur>>
  ELSE IF Head(str) = c THEN <<cur>> \o Split(Tail(str), c, <<>>)
  ELSE Split(Tail(str), c, Append(cur, Head(str)))

\* str::cmp: -1 (Less), 0 (Equal), 1 (Greater), byte by byte.
RECURSIVE CmpStr(_, _)
CmpStr(a, b) ==
  IF a = <<>> THEN (IF b = <<>> THEN 0 ELSE -1)
  ELSE IF b = <<>> THEN 1
  ELSE IF Head(a) < Head(b) THEN -1
  ELSE IF Head(a) > Head(b) THEN 1
  ELSE CmpStr(Tail(a), Tail(b))

\* A faulty variant of the comparator's loop: with the pieces of one path at an
\* end, the state of the comparison decides where it is not Equal.
RECURSIVE CmpLoopLexicographic(_, _, _, _)
CmpLoopLexicographic(split_a, split_b, i, cmp_state) ==
  IF cmp_state # 0 THEN cmp_state
  ELSE IF i <= Len(split_a) /\ i <= Len(split_b)
  THEN CmpLoopLexicographic(split_a, split_b, i + 1, CmpStr(split_a[i], split_b[i]))
  ELSE IF i <= Len(split_a) THEN 1
  ELSE IF i <= Len(split_b) THEN -1
  ELSE cmp_state

\* The comparator's loop without the two tests after it: a path that runs out
\* of pieces first is given the state the loop ended in.
RECURSIVE CmpLoopEndsInState(_, _, _, _)
CmpLoopEndsInState(split_a, split_b, i, cmp_state) ==
  IF i <= Len(split_a) /\ i <= Len(split_b)
  THEN IF cmp_state # 0 THEN cmp_state
       ELSE CmpLoopEndsInState(split_a, split_b, i + 1, CmpStr(split_a[i], split_b[i]))
  ELSE cmp_state

\* The while loop of the comparator of sort, at piece i of both paths.
RECURSIVE CmpLoop(_, _, _, _)
CmpLoop(split_a, split_b, i, cmp_state) ==
  IF i <= Len(split_a) /\ i <= Len(split_b)
  THEN IF cmp_state # 0 THEN cmp_state
       ELSE CmpLoop(split_a, split_b, i + 1, CmpStr(split_a[i], split_b[i]))
  ELSE IF i <= Len(split_a) THEN 1
  ELSE IF i <= Len(split_b) THEN -1
  ELSE cmp_state

\* The comparator of sort.
ComparePaths(a, b) ==
  CmpLoop(Split(a.path, Chr["/"], <<>>), Split(b.path, Chr["/"], <<>>), 1, 0)

\* EDList::sort: the lists par_sort_unstable_by can leave: the elements in an
\* order in which none is Greater than a later one.
sort(list) ==
  {[i \in 1..Len(list) |-> list[perm[i]]] :
     perm \in {q \in Orders(1..Len(list)) :
                 \A i, j \in 1..Len(list) :
                   i < j => ComparePaths(list[q[i]], list[q[j]]) <= 0}}

(***************************************************************************)
(* EDList (e_d_list.rs): relative checksums and sync                       *)
(***************************************************************************)
\* A faulty variant of RelativeMessage: the path goes in whole, prefix and all.
RECURSIVE RelativeMessageKeepsPrefix(_, _)
RelativeMessageKeepsPrefix(list, relative_path) ==
  IF list = <<>> THEN <<>>
  ELSE (IF HasPrefix(Head(list).path, relative_path)
        THEN Head(list).path \o to_le_bytes(Head(list).modified_time)
             \o VariantBytes(Head(list).variant_fields)
        ELSE <<>>)
       \o RelativeMessageKeepsPrefix(Tail(list), relative_path)

\* What internal_relative_checksum feeds its hasher: of every element whose
\* path has the prefix, the rest of the path, the time and the variant bytes.
RECURSIVE RelativeMessage(_, _)
RelativeMessage(list, relative_path) ==
  IF list = <<>> THEN <<>>
  ELSE LET postfix == StripPrefix(Head(list).path, relative_path)
       IN (IF postfix.some
           THEN postfix.rest \o to_le_bytes(Head(list).modified_time)
                \o VariantBytes(Head(list).variant_fields)
           ELSE <<>>)
          \o RelativeMessage(Tail(list), relative_path)

\* EDList::internal_relative_checksum(relative_path, true)
internal_relative_checksum(list, relative_path) ==
  blake2_to_checksum(Blake2bUpdate(Blake2bNew, RelativeMessage(list, relative_path)))

\* EDList::internal_relative_checksum with its flag: [some, hash]; None when no
\* element was found and none is not allowed.
internal_relative_checksum_option(list, relative_path, no_elements_allowed) ==
  IF no_elements_allowed \/ \E i \in 1..Len(list) : HasPrefix(list[i].path, relative_path)
  THEN [some |-> TRUE, hash |-> internal_relative_checksum(list, relative_path)]
  ELSE [some |-> FALSE, hash |-> ChecksumDefault]

\* What the operator is told of the hash: the message sent, and the hash in it.
RelativeAnswer(found) ==
  IF found.some
  THEN [message |-> "Relative hash", hash |-> ChecksumToString(found.hash)]
  ELSE [message |-> "No files were found in the specified path", hash |-> <<>>]

\* EDList::relative_checksum for the path the operator enters.
relative_checksum(list, relative_path) ==
  RelativeAnswer(internal_relative_checksum_option(list, relative_path, FALSE))

\* What internal_negated_relative_checksum feeds its hasher: of every element
\* whose path has not the prefix, the path, the time and the variant bytes.
RECURSIVE NegatedMessage(_, _)
NegatedMessage(list, relative_path) ==
  IF list = <<>> THEN <<>>
  ELSE (IF ~HasPrefix(Head(list).path, relative_path)
        THEN Head(list).path \o to_le_bytes(Head(list).modified_time)
             \o VariantBytes(Head(list).variant_fields)
        ELSE <<>>)
       \o NegatedMessage(Tail(list), relative_path)

\* EDList::internal_negated_relative_checksum
internal_negated_relative_checksum(list, relative_path) ==
  blake2_to_checksum(Blake2bUpdate(Blake2bNew, NegatedMessage(list, relative_path)))

\* EDElement::update_path: the element at another path, its hash computed anew.
update_path(e, path) == from_internal(path, e.modified_time, e.variant_fields)

\* The FileOperations of sync; a Move goes to or comes from the temporary
\* directory under the rest of the path.
OpDelete(path) == [op |-> "Delete", from |-> path, to |-> <<>>]
OpMoveOut(from, postfix) == [op |-> "MoveOut", from |-> from, to |-> postfix]
OpMoveIn(postfix, to) == [op |-> "MoveIn", from |-> postfix, to |-> to]
OpCopy(from, to) == [op |-> "Copy", from |-> from, to |-> to]

\* The elements of a sequence at the positions not in a set.
RECURSIVE Without(_, _, _)
Without(list, positions, i) ==
  IF i > Len(list) THEN <<>>
  ELSE (IF i \in positions THEN <<>> ELSE <<list[i]>>) \o Without(list, positions, i + 1)

\* A faulty variant of the loop of sync: an element taken for a move is added
\* with the path it had.
RECURSIVE SyncLoopMoveKeepsPath(_, _, _, _)
SyncLoopMoveKeepsPath(source_list, i, plan, prefixes) ==
  IF i > Len(source_list) THEN plan
  ELSE
  LET source_element == source_list[i]
      prefix_stripped_source == Drop(source_element.path, Len(prefixes.from))
      dest_path == prefixes.to \o prefix_stripped_source
      existing_files ==
        {k \in 1..Len(plan.existing) :
           /\ plan.existing[k].variant_fields = source_element.variant_fields
           /\ plan.existing[k].modified_time = source_element.modified_time}
      drained ==
        {k \in existing_files :
           Drop(plan.existing[k].path, Len(prefixes.to)) = prefix_stripped_source}
      first == CHOOSE k \in drained : \A j \in drained : k <= j
      popped == CHOOSE k \in existing_files : \A j \in existing_files : j <= k
  IN IF drained # {}
     THEN SyncLoopMoveKeepsPath(source_list, i + 1,
                   [plan EXCEPT !.e_d_list = add_e_d_element(@, plan.existing[first]),
                                !.existing = Without(@, drained, 1)],
                   prefixes)
     ELSE IF existing_files # {}
     THEN SyncLoopMoveKeepsPath(source_list, i + 1,
                   [plan EXCEPT
                      !.e_d_list = add_e_d_element(@, plan.existing[popped]),
                      !.existing = Without(@, {popped}, 1),
                      !.pre = Append(@, OpMoveOut(plan.existing[popped].path,
                                                  prefix_stripped_source)),
                      !.post = Append(@, OpMoveIn(prefix_stripped_source, dest_path)),
                      !.files_moved = TRUE],
                   prefixes)
     ELSE SyncLoopMoveKeepsPath(source_list, i + 1,
                   [plan EXCEPT
                      !.e_d_list = add_e_d_element(@, update_path(source_element, dest_path)),
                      !.post = Append(@, OpCopy(source_element.path, dest_path))],
                   prefixes)

\* The loop of sync over the source elements under sync_from_prefix, from
\* element i on. plan.existing holds what is left of existing_files_map, in list
\* order: the vector of a key is the elements with that variant and time.
RECURSIVE SyncLoop(_, _, _, _)
SyncLoop(source_list, i, plan, prefixes) ==
  IF i > Len(source_list) THEN plan
  ELSE
  LET source_element == source_list[i]
      prefix_stripped_source == Drop(source_element.path, Len(prefixes.from))
      dest_path == prefixes.to \o prefix_stripped_source
      existing_files ==
        {k \in 1..Len(plan.existing) :
           /\ plan.existing[k].variant_fields = source_element.variant_fields
           /\ plan.existing[k].modified_time = source_element.modified_time}
      drained ==
        {k \in existing_files :
           Drop(plan.existing[k].path, Len(prefixes.to)) = prefix_stripped_source}
      first == CHOOSE k \in drained : \A j \in drained : k <= j
      popped == CHOOSE k \in existing_files : \A j \in existing_files : j <= k
  IN IF drained # {}
     THEN SyncLoop(source_list, i + 1,
                   [plan EXCEPT !.e_d_list = add_e_d_element(@, plan.existing[first]),
                                !.existing = Without(@, drained, 1)],
                   prefixes)
     ELSE IF existing_files # {}
     THEN SyncLoop(source_list, i + 1,
                   [plan EXCEPT
                      !.e_d_list = add_e_d_element(@, update_path(plan.existing[popped],
                                                                  dest_path)),
                      !.existing = Without(@, {popped}, 1),
                      !.pre = Append(@, OpMoveOut(plan.existing[popped].path,
                                                  prefix_stripped_source)),
                      !.post = Append(@, OpMoveIn(prefix_stripped_source, dest_path)),
                      !.files_moved = TRUE],
                   prefixes)
     ELSE SyncLoop(source_list, i + 1,
                   [plan EXCEPT
                      !.e_d_list = add_e_d_element(@, update_path(source_element, dest_path)),
                      !.post = Append(@, OpCopy(source_element.path, dest_path))],
                   prefixes)

\* The xor checksum after the elements of a list were taken out.
RECURSIVE XorOut(_, _)
XorOut(checksum, list) ==
  IF list = <<>> THEN checksum
  ELSE XorOut(ChecksumXor(checksum, Head(list).element_hash), Tail(list))

\* The orders in which existing_files_map.drain() can yield what is left: key
\* by key, the elements of one key in list order.
DrainOrders(existing) ==
  {q \in Orders(1..Len(existing)) :
     \A i, k \in 1..Len(existing) :
       i < k =>
         LET same == /\ existing[q[i]].variant_fields = existing[q[k]].variant_fields
                     /\ existing[q[i]].modified_time = existing[q[k]].modified_time
         IN /\ same => q[i] < q[k]
            /\ same => \A j \in i..k :
                         /\ existing[q[j]].variant_fields = existing[q[i]].variant_fields
                         /\ existing[q[j]].modified_time = existing[q[i]].modified_time}

\* The planning part of sync, from the partition of the element list to the
\* Delete operations: the plans it can arrive at, [e_d_list, existing, pre, post,
\* files_moved].
SyncPlan(e_d_list, source_element_list, prefixes) ==
  LET HasTo(e) == HasPrefix(e.path, prefixes.to)
      NotTo(e) == ~HasPrefix(e.path, prefixes.to)
      HasFrom(e) == HasPrefix(e.path, prefixes.from)
      existing_files_vec == SelectSeq(e_d_list.element_list, HasTo)
      target_list == SelectSeq(e_d_list.element_list, NotTo)
      start == [e_d_list |-> [element_list |-> target_list,
                              xor_checksum |-> XorOut(e_d_list.xor_checksum,
                                                      existing_files_vec)],
                existing |-> existing_files_vec, pre |-> <<>>, post |-> <<>>,
                files_moved |-> FALSE]
      matched == SyncLoop(SelectSeq(source_element_list, HasFrom), 1, start, prefixes)
  IN {[matched EXCEPT
         !.pre = @ \o [k \in 1..Len(matched.existing) |-> OpDelete(matched.existing[q[k]].path)]]
      : q \in DrainOrders(matched.existing)}

\* A tree with an object put at a path, and without the object at a path.
Put(files, path, object) ==
  [q \in DOMAIN files \cup {path} |-> IF q = path THEN object ELSE files[q]]
Remove(files, path) == [q \in DOMAIN files \ {path} |-> files[q]]

\* The path a file opened for writing at a path comes to be written at: links
\* are followed.
RECURSIVE WrittenAt(_, _, _)
WrittenAt(files, path, depth) ==
  LET metadata == symlink_metadata(files, path)
  IN IF metadata.kind = "link" /\ depth > 0 /\ Parent(path).some
     THEN WrittenAt(files, Join(Parent(path).path, metadata.data), depth - 1)
     ELSE path

\* The modified time of a file that std::fs::copy has just written.
CopyTime == 0

\* std::fs::copy of a file to a destination that leads to the path written,
\* and set_symlink_file_times on the destination itself: [ok, tree].
CopyFile(tree, to, written, from_source) ==
  IF symlink_metadata(tree.fs, written).kind \in {"dir", "link"}
  THEN [ok |-> FALSE, tree |-> tree]
  ELSE [ok |-> TRUE,
        tree |-> [tree EXCEPT
                    !.fs = [Put(@, written, FileObject(from_source.data, CopyTime))
                              EXCEPT ![to].modified_time = from_source.modified_time]]]

\* The Copy operation, given the metadata of its source.
CopyObject(tree, to, from_source) ==
  IF from_source.kind = "file"
  THEN CopyFile(tree, to, WrittenAt(tree.fs, to, MaxLinkDepth), from_source)
  ELSE IF from_source.kind = "link" /\ to \notin DOMAIN tree.fs
  THEN [ok |-> TRUE, tree |-> [tree EXCEPT !.fs = Put(@, to, from_source)]]
  ELSE [ok |-> FALSE, tree |-> tree]

\* One FileOperation of do_file_operations on the tree [fs, aside, steps], with the
\* files of the source folder: [ok, tree]. Delete renames into the backup
\* folder, a Move renames to or from the temporary directory (a rename replaces
\* what is at its destination). Copy of a file writes the content where the
\* destination leads and sets the modified time of the destination itself to
\* that of the source; Copy of a link makes a link where there is nothing.
do_file_operation(operation, tree, source_files) ==
  IF operation.op = "Delete"
  THEN IF operation.from \notin DOMAIN tree.fs THEN [ok |-> FALSE, tree |-> tree]
       ELSE [ok |-> TRUE,
             tree |-> [tree EXCEPT
                         !.fs = Remove(@, operation.from),
                         !.aside.backup = Put(@, operation.from, tree.fs[operation.from])]]
  ELSE IF operation.op = "MoveOut"
  THEN IF operation.from \notin DOMAIN tree.fs THEN [ok |-> FALSE, tree |-> tree]
       ELSE [ok |-> TRUE,
             tree |-> [tree EXCEPT
                         !.fs = Remove(@, operation.from),
                         !.aside.tmp = Put(@, operation.to, tree.fs[operation.from])]]
  ELSE IF operation.op = "MoveIn"
  THEN IF operation.from \notin DOMAIN tree.aside.tmp THEN [ok |-> FALSE, tree |-> tree]
       ELSE [ok |-> TRUE,
             tree |-> [tree EXCEPT
                         !.fs = Put(@, operation.to, tree.aside.tmp[operation.from]),
                         !.aside.tmp = Remove(@, operation.from)]]
  ELSE CopyObject(tree, operation.to, symlink_metadata(source_files, operation.from))

\* A step of the execution of sync, kept for the properties: what was done,
\* the operation where it was one, whether it went through, and the lines the
\* synclist held when it was begun.
Stepped(done, tree, step, operation) ==
  [done EXCEPT !.tree.steps = @ \o <<[step |-> step, operation |-> operation,
                                      ok |-> done.ok, synclist |-> tree.aside.synclist]>>]

\* The head of do_file_operations: the operations it was called with are
\* appended, one line each, to the synclist of the backup folder.
write_synclist(operations, tree) ==
  [tree EXCEPT !.aside.synclist = @ \o operations]

\* The loop of do_file_operations over the operations it was called with, from
\* operation i on; the filesystem fails after sound operations: [ok, tree].
RECURSIVE do_file_operations(_, _, _, _, _)
\* The loop after an operation was carried out.
AfterOperation(done, operations, i, source_files, sound) ==
  IF ~done.ok THEN done
  ELSE do_file_operations(operations, i + 1, done.tree, source_files, sound)
do_file_operations(operations, i, tree, source_files, sound) ==
  IF i > Len(operations) THEN [ok |-> TRUE, tree |-> tree]
  ELSE IF i > sound
  THEN Stepped([ok |-> FALSE, tree |-> tree], tree, "operation", operations[i])
  ELSE AfterOperation(Stepped(do_file_operation(operations[i], tree, source_files),
                              tree, "operation", operations[i]),
                      operations, i, source_files, sound)

\* A faulty variant of create_dir_all: a directory that is not there is not made.
create_dir_all_makes_none(files, dir) == [ok |-> TRUE, files |-> files]

\* fs::create_dir_all of a directory path: [ok, files]. A directory that is
\* not there comes to be, with those above it; what is no directory stays.
create_dir_all(files, dir) ==
  LET metadata == symlink_metadata(files, dir)
  IN IF dir = Asc(<<".">>) \/ metadata.kind = "dir" THEN [ok |-> TRUE, files |-> files]
     ELSE IF metadata.kind = "none" THEN [ok |-> TRUE, files |-> Put(files, dir, DirObject)]
     ELSE [ok |-> FALSE, files |-> files]

\* EDList::delete_empty_folders("./"): the tree without the directories that
\* hold no file, no link and no banned directory, and are not banned.
delete_empty_folders(files, banned_paths) ==
  LET Banned(p) == is_in_banlist(banned_paths, p \o <<Chr["/"]>>)
      Empty(p) ==
        /\ files[p].kind = "dir" /\ ~Banned(p)
        /\ \A q \in DOMAIN files :
             HasPrefix(q, p \o <<Chr["/"]>>) => (files[q].kind = "dir" /\ ~Banned(q))
  IN [q \in {p \in DOMAIN files : ~Empty(p)} |-> files[q]]

\* A prefix without its closing slash: the directory it names.
PrefixDir(prefix) == SubSeq(prefix, 1, Len(prefix) - 1)

\* What sync has when it ends before its planning.
NoPlan == [e_d_list |-> NoEDList, existing |-> <<>>, pre |-> <<>>, post |-> <<>>,
           files_moved |-> FALSE]

\* An outcome of sync: [result, e_d_list, tree] and, for the properties,
\* whether sync came to plan, the plan, the source list and whether open wrote a
\* backup in the source folder.
SyncOutcome(result, e_d_list, tree, plan, source) ==
  [result |-> result, e_d_list |-> e_d_list, tree |-> tree, planned |-> plan # NoPlan,
   plan |-> plan, source_element_list |-> source.e_d_list.element_list,
   source_backup |-> source.backup.created]

\* No operation: what a step that is no file operation has for one.
NoOperation == [op |-> "none", from |-> <<>>, to |-> <<>>]

\* delete_empty_folders("./") after file operations that went through; the
\* filesystem fails it where sound is FALSE, and then nothing is removed.
SweepAfter(done, banned_paths, sound) ==
  IF ~done.ok THEN done
  ELSE IF ~sound
  THEN Stepped([ok |-> FALSE, tree |-> done.tree], done.tree, "delete_empty_folders",
               NoOperation)
  ELSE Stepped([ok |-> TRUE,
                tree |-> [done.tree EXCEPT !.fs = delete_empty_folders(@, banned_paths)]],
               done.tree, "delete_empty_folders", NoOperation)

\* delete_empty_folders of the temporary directory, where files were moved
\* through it: its files have all been moved on, what is left of it is empty.
SweepTmp(done, plan) ==
  IF done.ok /\ plan.files_moved
  THEN Stepped(done, done.tree, "delete_empty_folders_tmp", NoOperation)
  ELSE done

\* A faulty variant of PostOperations: they are carried out after a sweep that
\* failed as well.
PostOperationsAfterFailure(swept, plan, input) ==
  do_file_operations(plan.post, 1, write_synclist(plan.post, swept.tree),
                     input.source.files, input.sound - Len(plan.pre))

\* The post operations after the pre operations and the sweep that follows them.
PostOperations(swept, plan, input) ==
  IF swept.ok
  THEN do_file_operations(plan.post, 1, write_synclist(plan.post, swept.tree),
                          input.source.files, input.sound - Len(plan.pre))
  ELSE swept

\* The end of sync, from the backup folder's creation on: the pre operations,
\* a sweep of the empty folders, the post operations, a sweep, and a sweep of
\* the temporary directory.
SyncExecuted(done, plan, source) ==
  SyncOutcome(IF done.ok THEN "Ok" ELSE "IoError", plan.e_d_list, done.tree, plan, source)

\* sync from the checksum validation on, for a plan made.
SyncFinish(e_d_list, source, tree, input, banned_paths, plan) ==
  IF \/ internal_relative_checksum(source.e_d_list.element_list, input.prefixes.from)
        # internal_relative_checksum(plan.e_d_list.element_list, input.prefixes.to)
     \/ internal_negated_relative_checksum(plan.e_d_list.element_list, input.prefixes.to)
        # internal_negated_relative_checksum(e_d_list.element_list, input.prefixes.to)
  THEN SyncOutcome("ChecksumValidationError", plan.e_d_list, tree, plan, source)
  ELSE IF ~input.proceed THEN SyncOutcome("UserAbort", e_d_list, tree, plan, source)
  ELSE SyncExecuted(
         SweepTmp(
           SweepAfter(
             PostOperations(
               SweepAfter(do_file_operations(plan.pre, 1,
                                             write_synclist(plan.pre, tree),
                                             input.source.files, input.sound),
                          banned_paths, input.swept > 0),
               plan, input),
             banned_paths, input.swept > 1),
           plan),
         plan, source)

\* sync after create_dir_all(sync_to_prefix), whose outcome is made.
SyncMade(e_d_list, source, tree, made, input, banned_paths) ==
  IF ~made.ok THEN {SyncOutcome("IoError", e_d_list, tree, NoPlan, source)}
  ELSE IF symlink_metadata(input.source.files, PrefixDir(input.prefixes.from)).kind # "dir"
  THEN {SyncOutcome("IoError", e_d_list, [tree EXCEPT !.fs = made.files], NoPlan, source)}
  ELSE IF ~input.confirm
  THEN {SyncOutcome("UserAbort", e_d_list, [tree EXCEPT !.fs = made.files], NoPlan, source)}
  ELSE {SyncFinish(e_d_list, source, [tree EXCEPT !.fs = made.files], input, banned_paths,
                   plan)
        : plan \in SyncPlan(e_d_list, source.e_d_list.element_list, input.prefixes)}

\* EDList::sync once the source list is open: the outcomes it can have. source
\* is what open returned; input holds the source folder ([file_hashes, files]),
\* the two prefixes, the operator's two answers, the number of file
\* operations the filesystem carries out before it fails, and the number of
\* sweeps of empty folders it carries out before it fails.
SyncOpened(e_d_list, source, tree, input, banned_paths) ==
  SyncMade(e_d_list, source, tree, create_dir_all(tree.fs, PrefixDir(input.prefixes.to)),
           input, banned_paths)

\* The folders sync is pointed at: one whose list names ./s/a and ./s/c, and
\* one without a list.
SourceElements ==
  <<from_internal(Asc(<<".", "/", "s", "/", "a">>), 105, FileVariant(hash_file(Asc(<<"a">>)))),
    from_internal(Asc(<<".", "/", "s", "/", "c">>), 7, LinkVariant(Asc(<<"a">>)))>>
SourceList ==
  [exists |-> TRUE,
   bytes |-> write_edlist_to_file(EDListNew(SourceElements, XorOfElements(SourceElements)))]
SourceFolders ==
  {[file_hashes |-> SourceList,
    files |-> (Asc(<<".", "/", "s", "/", "a">>) :> FileObject(Asc(<<"a">>), 105))
              @@ (Asc(<<".", "/", "s", "/", "c">>) :> LinkObject(Asc(<<"a">>), 7))],
   [file_hashes |-> NoFile,
    files |-> (Asc(<<".", "/", "s", "/", "c">>) :> LinkObject(Asc(<<"a">>), 7))]}

\* A faulty variant of sync: the stub operator that opens the source list
\* answers YES.
sync_stub_yes(e_d_list, tree, input, banned_paths) ==
  UNION {IF source.has_list
         THEN SyncOpened(e_d_list, source, tree, input, banned_paths)
         ELSE {SyncOutcome("EDListOpenError", e_d_list, tree, NoPlan, source)}
         : source \in open(input.source.file_hashes, "Yes", "ok")}

\* EDList::sync: the outcomes it can have. The source list is opened by an
\* operator who answers NO, with a dummy banlist; its backup gets written (were
\* it not, sync would end as it does without a list).
sync(e_d_list, tree, input, banned_paths) ==
  UNION {IF source.has_list
         THEN SyncOpened(e_d_list, source, tree, input, banned_paths)
         ELSE {SyncOutcome("EDListOpenError", e_d_list, tree, NoPlan, source)}
         : source \in open(input.source.file_hashes, "No", "ok")}

(***************************************************************************)
(* The operations on the store.                                            *)
(***************************************************************************)
Store == [element_list |-> element_list, xor_checksum |-> xor_checksum]

\* The number of create, delete, sort and sync calls in one run of the program.
MaxOps == 2

\* What an operation that may have changed the store leaves of the history.
Touched == [ghost EXCEPT !.fresh = FALSE, !.ops = @ + 1]

\* The program calls EDList::create; read_dir may fail, at the root or after
\* the walk has found some of the paths.
Create ==
  /\ has_list /\ ghost.ops < MaxOps
  /\ \E index_list \in index(fs, banlist, Asc(<<".">>)) :
     \E indexed \in {[ok |-> TRUE, list |-> index_list]}
                    \cup {[ok |-> FALSE, list |-> SubSeq(index_list, 1, n)]
                          : n \in 0..Len(index_list)} :
       LET created == CreateAfterIndex(Store, fs, indexed)
       IN /\ element_list' = created.e_d_list.element_list
          /\ xor_checksum' = created.e_d_list.xor_checksum
          /\ last' = [NoLast EXCEPT !.op = "create", !.result = created.result,
                                    !.index = Len(created.errors),
                                    !.call = [before |-> Store, walked |-> indexed.ok,
                                              index_list |-> indexed.list,
                                              errors |-> created.errors]]
  /\ ghost' = Touched
  /\ UNCHANGED <<has_list, diskVars, treeVars, codec>>

\* The program calls EDList::delete; the operator answers where asked.
Delete ==
  /\ has_list /\ ghost.ops < MaxOps
  /\ \E answers \in [{i \in 1..Len(element_list) :
                        \/ is_in_banlist(banlist, element_list[i].path)
                        \/ test_metadata(fs, element_list[i]) # "Ok"} -> YesNoAuto] :
       LET deleted == delete(Store, fs, banlist, answers)
       IN /\ element_list' = deleted.e_d_list.element_list
          /\ xor_checksum' = deleted.e_d_list.xor_checksum
          /\ last' = [NoLast EXCEPT !.op = "delete",
                                    !.result = DeletedCount(Store, deleted),
                                    !.index = Len(deleted.deleted_paths),
                                    !.call = [before |-> Store, answers |-> answers,
                                              prompted |-> deleted.prompted,
                                              deleted_paths |-> deleted.deleted_paths]]
  /\ ghost' = Touched
  /\ UNCHANGED <<has_list, diskVars, treeVars, codec>>

\* The program calls EDList::sort.
Sort ==
  /\ has_list /\ ghost.ops < MaxOps
  /\ element_list' \in sort(element_list)
  /\ last' = [NoLast EXCEPT !.op = "sort", !.result = "Ok", !.call = [before |-> Store]]
  /\ ghost' = Touched
  /\ UNCHANGED <<has_list, xor_checksum, diskVars, treeVars, codec>>

\* The number of file operations after which the filesystem is taken to fail,
\* and a number no plan of the model reaches.
NoFault == 9
SyncInputs ==
  {input \in [source : SourceFolders,
              prefixes : {[to |-> Asc(<<".", "/", "t", "/">>),
                           from |-> Asc(<<".", "/", "s", "/">>)]},
              confirm : BOOLEAN, proceed : BOOLEAN,
              sound : {1, NoFault}, swept : {NoFault}] :
     /\ input.proceed => input.confirm
     /\ input.sound # NoFault => input.proceed}

\* EDList::sync with one of the inputs: the store and the tree as an outcome
\* of sync has them, and the call in the history.
SyncWith(inputs) ==
  \E input \in inputs :
    \E synced \in sync(Store, [fs |-> fs, aside |-> aside, steps |-> <<>>], input, banlist) :
      /\ element_list' = synced.e_d_list.element_list
      /\ xor_checksum' = synced.e_d_list.xor_checksum
      /\ fs' = synced.tree.fs
      /\ aside' = synced.tree.aside
      /\ last' = [NoLast EXCEPT
                    !.op = "sync", !.result = synced.result,
                    !.call = [before |-> Store, tree |-> [fs |-> fs, aside |-> aside],
                              prefixes |-> input.prefixes, planned |-> synced.planned,
                              target |-> synced.plan.e_d_list,
                              pre |-> synced.plan.pre, post |-> synced.plan.post,
                              source_element_list |-> synced.source_element_list,
                              source_files |-> input.source.files,
                              source_exists |-> input.source.file_hashes.exists,
                              steps |-> synced.tree.steps,
                              source_backup |-> synced.source_backup]]

\* The program calls EDList::sync; the operator names a folder and the prefixes
\* and answers the two questions.
Sync ==
  /\ has_list /\ ghost.ops < MaxOps
  /\ SyncWith(SyncInputs)
  /\ ghost' = Touched
  /\ UNCHANGED <<has_list, diskVars, banlist, codec>>

\* How often a value occurs in a sequence.
Count(list, x) == Cardinality({i \in 1..Len(list) : list[i] = x})
PathsOf(list) == {list[i].path : i \in 1..Len(list)}

(***************************************************************************)
(* SpecSort: sort over stores of entries with distinct paths.              *)
(***************************************************************************)
\* Files in the root directory, in ./b and in ./b/b, with names before and
\* after the names of the directories beside them, a path that is the start of
\* others and a name that is the start of another.
SortPaths ==
  {Asc(<<".", "/", "a">>), Asc(<<".", "/", "c">>), Asc(<<".", "/", "b", "/", "a">>),
   Asc(<<".", "/", "b", "/", "c">>), Asc(<<".", "/", "b", "/", "b", "/", "a">>),
   Asc(<<".", "/", "b">>), Asc(<<".", "/", "a", "b">>)}
MaxSortEntries == 3
SortElements == {from_internal(path, 7, LinkVariant(Asc(<<"a">>))) : path \in SortPaths}
SortLists ==
  {list \in UNION {[1..n -> SortElements] : n \in 0..MaxSortEntries} :
     \A i, j \in 1..Len(list) : i # j => list[i] # list[j]}

SortInit ==
  /\ has_list = TRUE
  /\ element_list \in SortLists /\ xor_checksum = XorOfElements(element_list)
  /\ file_hashes = NoFile /\ backups = <<>>
  /\ fs = NoFiles /\ aside = NoAside /\ banlist = NoBanlist
  /\ last = NoLast /\ ghost = NoGhost /\ codec = NoCodec

SortNext == Sort

SpecSort == SortInit /\ [][SortNext]_vars

\* The order of two paths by their pieces between slashes, where the first
\* piece in which they differ decides and a path that is the start of the other
\* comes first.
ComponentwiseCompare(a, b) ==
  LET split_a == Split(a, Chr["/"], <<>>)
      split_b == Split(b, Chr["/"], <<>>)
      differ == {k \in 1..Len(split_a) : k <= Len(split_b) /\ split_a[k] # split_b[k]}
      first == CHOOSE k \in differ : \A j \in differ : k <= j
  IN IF differ # {} THEN CmpStr(split_a[first], split_b[first])
     ELSE IF Len(split_a) < Len(split_b) THEN -1
     ELSE IF Len(split_a) > Len(split_b) THEN 1
     ELSE 0
\* The order of two paths in which, at the first piece in which they differ, a
\* path that ends with that piece (a file of the directory) comes before one
\* that goes on (into a subdirectory), and the pieces decide otherwise.
FilesFirstCompare(a, b) ==
  LET split_a == Split(a, Chr["/"], <<>>)
      split_b == Split(b, Chr["/"], <<>>)
      differ == {k \in 1..Len(split_a) : k <= Len(split_b) /\ split_a[k] # split_b[k]}
      first == CHOOSE k \in differ : \A j \in differ : k <= j
  IN IF differ = {}
     THEN (IF Len(split_a) < Len(split_b) THEN -1
           ELSE IF Len(split_a) > Len(split_b) THEN 1 ELSE 0)
     ELSE IF first = Len(split_a) /\ first < Len(split_b) THEN -1
     ELSE IF first = Len(split_b) /\ first < Len(split_a) THEN 1
     ELSE CmpStr(split_a[first], split_b[first])
\* Whether a list holds the elements of another, each as often.
SameElements(list, other) ==
  /\ Len(list) = Len(other)
  /\ \A i \in 1..Len(list) : Count(list, list[i]) = Count(other, list[i])

\* C15 (as the code has it): after sort the store holds the entries it held,
\* and of every two consecutive entries the first does not come after the
\* second in the order that lists the files of a directory before what is in
\* its subdirectories and goes by the first differing piece otherwise.
C15_SortedFilesFirst ==
  last.op = "sort" =>
    /\ SameElements(element_list, last.call.before.element_list)
    /\ \A i \in 1..(Len(element_list) - 1) :
         FilesFirstCompare(element_list[i].path, element_list[i + 1].path) <= 0

\* sort was given ./b/a, ./c and ./a and left ./a, ./c, ./b/a.
C15_Witness ==
  /\ last.op = "sort"
  /\ last.call.before.element_list
       = <<from_internal(Asc(<<".", "/", "b", "/", "a">>), 7, LinkVariant(Asc(<<"a">>))),
           from_internal(Asc(<<".", "/", "c">>), 7, LinkVariant(Asc(<<"a">>))),
           from_internal(Asc(<<".", "/", "a">>), 7, LinkVariant(Asc(<<"a">>)))>>
  /\ element_list
       = <<from_internal(Asc(<<".", "/", "a">>), 7, LinkVariant(Asc(<<"a">>))),
           from_internal(Asc(<<".", "/", "c">>), 7, LinkVariant(Asc(<<"a">>))),
           from_internal(Asc(<<".", "/", "b", "/", "a">>), 7, LinkVariant(Asc(<<"a">>)))>>

\* C15 (as stated): after sort, of every two consecutive entries the first does
\* not come after the second in the lexicographic order of the lists of pieces.
C15_SortedComponentwise ==
  last.op = "sort" =>
    \A i \in 1..(Len(element_list) - 1) :
      ComponentwiseCompare(element_list[i].path, element_list[i + 1].path) <= 0

\* C36: the comparator of sort is a strict total order on the paths of a store
\* with unique paths: two entries compare Equal only if they are the same
\* path, swapping the arguments swaps Less and Greater, and the order is
\* transitive; so there is one list sort can leave, whatever the scheduling,
\* and it holds the entries the store held.
C36_SortIsATotalOrder ==
  last.op = "sort" =>
    LET before == last.call.before.element_list
        n == Len(before)
    IN  /\ \A i, j \in 1..n :
             /\ ComparePaths(before[i], before[j]) = 0 <=> before[i].path = before[j].path
             /\ ComparePaths(before[i], before[j]) = 0 - ComparePaths(before[j], before[i])
        /\ \A i, j, k \in 1..n :
             ComparePaths(before[i], before[j]) <= 0 /\ ComparePaths(before[j], before[k]) <= 0
               => ComparePaths(before[i], before[k]) <= 0
        /\ sort(before) = {element_list}
        /\ SameElements(element_list, before)

\* sort was given ./b/a, ./b and ./ab and left ./ab, ./b, ./b/a.
C36_Witness ==
  /\ last.op = "sort"
  /\ Len(element_list) = 3 /\ Len(last.call.before.element_list) = 3
  /\ [i \in 1..3 |-> last.call.before.element_list[i].path]
       = <<Asc(<<".", "/", "b", "/", "a">>), Asc(<<".", "/", "b">>), Asc(<<".", "/", "a", "b">>)>>
  /\ [i \in 1..3 |-> element_list[i].path]
       = <<Asc(<<".", "/", "a", "b">>), Asc(<<".", "/", "b">>), Asc(<<".", "/", "b", "/", "a">>)>>

(***************************************************************************)
(* SpecSync: sync over target stores, source folders and prefixes.         *)
(***************************************************************************)
\* A file and a link, as entries at a path and as objects on disk.
SyncFileAt(path) == from_internal(path, 105, FileVariant(hash_file(Asc(<<"a">>))))
SyncLinkAt(path) == from_internal(path, 7, LinkVariant(Asc(<<"a">>)))
ObjectOf(e) ==
  IF e.variant_fields.type = "File" THEN FileObject(Asc(<<"a">>), e.modified_time)
  ELSE LinkObject(e.variant_fields.link_target, e.modified_time)
\* The tree in which every entry of a list has its object (where two entries
\* have one path, that of the first).
TreeOf(list) ==
  [path \in PathsOf(list) |->
     ObjectOf(list[CHOOSE i \in 1..Len(list) :
                     /\ list[i].path = path
                     /\ \A j \in 1..Len(list) : list[j].path = path => i <= j])]
MaxSyncEntries == 2
InjLists(elements) ==
  {list \in UNION {[1..n -> elements] : n \in 0..MaxSyncEntries} :
     \A i, j \in 1..Len(list) : i # j => list[i] # list[j]}
SyncTargetElements ==
  {SyncFileAt(Asc(<<".", "/", "a">>)), SyncFileAt(Asc(<<".", "/", "t", "/", "a">>)),
   SyncLinkAt(Asc(<<".", "/", "t", "/", "b">>)), SyncLinkAt(Asc(<<".", "/", "t", "/", "c">>)),
   SyncFileAt(Asc(<<".", "/", "t", "/", "c">>))}
SyncSourceElements ==
  {SyncFileAt(Asc(<<".", "/", "a">>)), SyncFileAt(Asc(<<".", "/", "s", "/", "a">>)),
   SyncLinkAt(Asc(<<".", "/", "s", "/", "b">>)), SyncLinkAt(Asc(<<".", "/", "s", "/", "c">>)),
   SyncFileAt(Asc(<<".", "/", "s", "/", "c">>))}
\* A tree whose objects were modified later, by a drift, than they are.
Later(files, drift) == [path \in DOMAIN files |-> [files[path] EXCEPT !.modified_time = @ + drift]]
\* The source folders: a list and the objects of its entries, as the list has
\* them or modified since the list was written.
SyncDrifts == {0, 1}
SyncSourceFolders ==
  {[file_hashes |-> [exists |-> TRUE,
                     bytes |-> write_edlist_to_file(EDListNew(list, XorOfElements(list)))],
    files |-> Later(TreeOf(list), drift)]
   : list \in InjLists(SyncSourceElements), drift \in SyncDrifts}
SyncCallInputs ==
  {input \in [source : SyncSourceFolders,
              prefixes : {[to |-> Asc(<<".", "/", "t", "/">>),
                           from |-> Asc(<<".", "/", "s", "/">>)],
                          [to |-> Asc(<<".", "/", "d", "/">>),
                           from |-> Asc(<<".", "/", "s", "/">>)],
                          [to |-> Asc(<<".", "/", "t", "/">>), from |-> Asc(<<".", "/">>)]},
              confirm : BOOLEAN, proceed : BOOLEAN,
              sound : {1, NoFault}, swept : {0, 1, NoFault}] :
     /\ input.proceed => input.confirm
     /\ input.sound # NoFault => input.proceed
     /\ input.swept # NoFault => (input.proceed /\ input.sound = NoFault)}

\* A directory of the target tree that holds nothing, beside the directories
\* sync is pointed at.
SyncEmptyDir == Asc(<<".", "/", "e">>)

\* The target: a store, the objects of its entries and, in some trees, an empty
\* directory.
SyncInit ==
  /\ has_list = TRUE
  /\ element_list \in InjLists(SyncTargetElements)
  /\ xor_checksum = XorOfElements(element_list)
  /\ file_hashes = NoFile /\ backups = <<>>
  /\ fs \in {TreeOf(element_list), Put(TreeOf(element_list), SyncEmptyDir, DirObject)}
  /\ aside = NoAside /\ banlist = NoBanlist
  /\ last = NoLast /\ ghost = NoGhost /\ codec = NoCodec

\* The program calls EDList::sync on a store it has opened.
SyncCall ==
  /\ has_list /\ last.op = "none"
  /\ SyncWith(SyncCallInputs)
  /\ UNCHANGED <<has_list, diskVars, banlist, ghost, codec>>

SyncNext == SyncCall

SpecSync == SyncInit /\ [][SyncNext]_vars

UniquePaths(list) == \A i, j \in 1..Len(list) : i # j => list[i].path # list[j].path
\* The entries of a list whose path has a prefix, and those whose path has not.
Under(list, prefix) == LET Has(e) == HasPrefix(e.path, prefix) IN SelectSeq(list, Has)
NotUnder(list, prefix) == LET HasNot(e) == ~HasPrefix(e.path, prefix) IN SelectSeq(list, HasNot)

\* C16: when sync has planned, from a source list and a target store with
\* unique paths, the target's entries are those it had that are not under
\* sync_to, as they were and in their order, and after them one entry for every
\* source entry under sync_from, in the order of the source, with the path
\* sync_to + suffix and the time and variant of the source entry; the relative
\* checksum of the target under sync_to is that of the source under sync_from,
\* the negated checksum of the target is what it was, and sync does not end
\* with ChecksumValidationError.
C16_PlannedTargetMirrorsSource ==
  (/\ last.op = "sync" /\ last.call.planned
   /\ UniquePaths(last.call.before.element_list)
   /\ UniquePaths(last.call.source_element_list)) =>
    LET to == last.call.prefixes.to
        from == last.call.prefixes.from
        before == last.call.before.element_list
        target == last.call.target.element_list
        kept == NotUnder(before, to)
        brought == Under(last.call.source_element_list, from)
    IN /\ Len(target) = Len(kept) + Len(brought)
       /\ SubSeq(target, 1, Len(kept)) = kept
       /\ \A k \in 1..Len(brought) :
            LET e == target[Len(kept) + k]
            IN /\ e.path = to \o Drop(brought[k].path, Len(from))
               /\ e.modified_time = brought[k].modified_time
               /\ e.variant_fields = brought[k].variant_fields
       /\ internal_relative_checksum(target, to)
            = internal_relative_checksum(last.call.source_element_list, from)
       /\ internal_negated_relative_checksum(target, to)
            = internal_negated_relative_checksum(before, to)
       /\ last.result # "ChecksumValidationError"

\* sync went through for a target that held ./a and the link ./t/b and a source
\* that held the file ./s/a and the link ./s/c: ./a stayed, ./t/b was moved to
\* ./t/c and ./s/a was copied to ./t/a.
C16_Witness ==
  /\ last.op = "sync" /\ last.result = "Ok" /\ last.call.planned
  /\ last.call.prefixes.to = Asc(<<".", "/", "t", "/">>)
  /\ last.call.before.element_list
       = <<SyncFileAt(Asc(<<".", "/", "a">>)), SyncLinkAt(Asc(<<".", "/", "t", "/", "b">>))>>
  /\ last.call.source_element_list
       = <<SyncFileAt(Asc(<<".", "/", "s", "/", "a">>)),
           SyncLinkAt(Asc(<<".", "/", "s", "/", "c">>))>>
  /\ element_list
       = <<SyncFileAt(Asc(<<".", "/", "a">>)), SyncFileAt(Asc(<<".", "/", "t", "/", "a">>)),
           SyncLinkAt(Asc(<<".", "/", "t", "/", "c">>))>>
  /\ Len(last.call.pre) = 1 /\ Len(last.call.post) = 2

\* Whether sync ended because the operator said no to the plan.
PlanDenied == last.op = "sync" /\ last.result = "UserAbort" /\ last.call.planned
\* Whether the store is the one sync was called on.
StoreAsBefore ==
  /\ element_list = last.call.before.element_list
  /\ xor_checksum = last.call.before.xor_checksum

\* C18 (as the code has it): when the operator says no to the plan, sync ends
\* with UserAbort, the store has the entries, in their order, and the xor
\* checksum it had; nothing on disk was moved, copied or removed; the directory
\* sync_to was made if it was not there, and opening the source list has
\* written a backup of it in the source folder.
C18_PlanDeniedRestoresStore ==
  PlanDenied =>
    LET dir == PrefixDir(last.call.prefixes.to)
        before == last.call.tree
    IN /\ StoreAsBefore
       /\ aside = before.aside
       /\ fs = IF symlink_metadata(before.fs, dir).kind = "none"
               THEN Put(before.fs, dir, DirObject) ELSE before.fs
       /\ last.call.source_backup

\* The operator said no to a plan of one copy into ./d, a directory that was
\* not there when sync was called and is there now, empty.
C18_Witness ==
  /\ PlanDenied /\ StoreAsBefore
  /\ last.call.prefixes.to = Asc(<<".", "/", "d", "/">>)
  /\ Len(last.call.post) = 1 /\ last.call.post[1].op = "Copy"
  /\ last.call.target.element_list # element_list
  /\ symlink_metadata(last.call.tree.fs, Asc(<<".", "/", "d">>)).kind = "none"
  /\ Asc(<<".", "/", "d">>) \in DOMAIN fs

\* C18 (as stated): when the operator says no to the plan, the store is as it
\* was and sync has created, moved, copied or removed nothing on disk.
C18_PlanDeniedLeavesDiskAlone ==
  PlanDenied =>
    /\ StoreAsBefore
    /\ fs = last.call.tree.fs /\ aside = last.call.tree.aside
    /\ ~last.call.source_backup

\* Whether a FileOperation takes the object at a path of the target away or
\* puts one there.
Touches(operation, path) ==
  \/ operation.op \in {"Delete", "MoveOut"} /\ operation.from = path
  \/ operation.op \in {"MoveIn", "Copy"} /\ operation.to = path

\* C19: when sync has planned, from lists with unique paths, then for every
\* source entry under sync_from with suffix s for which the target store held,
\* when sync was called, an entry at sync_to + s with the same variant and
\* time, that entry is in the planned list and no operation of the plan moves,
\* copies or deletes at that path.
C19_ExactMatchUntouched ==
  (/\ last.op = "sync" /\ last.call.planned
   /\ UniquePaths(last.call.before.element_list)
   /\ UniquePaths(last.call.source_element_list)) =>
    LET to == last.call.prefixes.to
        from == last.call.prefixes.from
        before == last.call.before.element_list
        brought == Under(last.call.source_element_list, from)
        operations == last.call.pre \o last.call.post
    IN \A k \in 1..Len(brought) : \A i \in 1..Len(before) :
         (/\ before[i].path = to \o Drop(brought[k].path, Len(from))
          /\ before[i].variant_fields = brought[k].variant_fields
          /\ before[i].modified_time = brought[k].modified_time)
           => /\ Count(last.call.target.element_list, before[i]) = 1
              /\ \A j \in 1..Len(operations) : ~Touches(operations[j], before[i].path)

\* Whether the object an entry had on disk when sync was called is still to be
\* found: at the entry's path, at the path a Move of the plan took it to, in the
\* backup folder under the entry's path, or in the temporary directory.
ObjectKept(path, object) ==
  LET Is(found) == found.kind = object.kind /\ found.data = object.data
  IN \/ path \in DOMAIN fs /\ Is(fs[path])
     \/ path \in DOMAIN aside.backup /\ Is(aside.backup[path])
     \/ \E name \in DOMAIN aside.tmp : Is(aside.tmp[name])
     \/ \E j \in 1..Len(last.call.pre) : \E k \in 1..Len(last.call.post) :
          /\ last.call.pre[j] = OpMoveOut(path, last.call.post[k].from)
          /\ last.call.post[k].op = "MoveIn"
          /\ last.call.post[k].to \in DOMAIN fs /\ Is(fs[last.call.post[k].to])

\* C20: whenever sync has planned, however it ends, every entry the target had
\* under sync_to whose object was on disk when sync was called still has that
\* object on disk: at its path, at the path it was renamed to, in the backup
\* folder under its path or (in a sync that ended part-way) in the temporary
\* directory.
C20_TrackedObjectsKept ==
  (last.op = "sync" /\ last.call.planned) =>
    LET before == last.call.before.element_list
        tree == last.call.tree.fs
    IN \A i \in 1..Len(before) :
         (/\ HasPrefix(before[i].path, last.call.prefixes.to)
          /\ before[i].path \in DOMAIN tree)
           => ObjectKept(before[i].path, tree[before[i].path])

\* The entries of the source under sync_from whose object on disk has the
\* modified time the source list records.
SourceAsRecorded ==
  \A i \in 1..Len(last.call.source_element_list) :
    LET e == last.call.source_element_list[i]
    IN HasPrefix(e.path, last.call.prefixes.from)
         => symlink_metadata(last.call.source_files, e.path).modified_time = e.modified_time

\* C21: after a sync that went through, from lists with unique paths, for
\* every Copy of the plan the object at the destination has the modified time
\* of the entry the store holds for that path, which is the time the source
\* list records, whatever modified time the source object has on disk.
C21_CopiedTimeIsRecordedTime ==
  (/\ last.op = "sync" /\ last.result = "Ok"
   /\ UniquePaths(last.call.before.element_list)
   /\ UniquePaths(last.call.source_element_list)) =>
    \A k \in 1..Len(last.call.post) :
      last.call.post[k].op = "Copy" =>
        \A i \in 1..Len(element_list) :
          element_list[i].path = last.call.post[k].to
            => /\ last.call.post[k].to \in DOMAIN fs
               /\ fs[last.call.post[k].to].modified_time = element_list[i].modified_time

\* C22: after a sync that went through, the entries of the store whose path
\* is not under sync_to are those it had, in their order, and every file, link
\* and directory of the tree outside sync_to is there as it was, and no other.
C22_OutsideSyncToUntouched ==
  (last.op = "sync" /\ last.result = "Ok") =>
    LET to == last.call.prefixes.to
        tree == last.call.tree.fs
        Outside(path) == ~HasPrefix(path, to) /\ path # PrefixDir(to)
    IN /\ NotUnder(element_list, to) = NotUnder(last.call.before.element_list, to)
       /\ \A path \in DOMAIN tree \cup DOMAIN fs :
            Outside(path) => /\ path \in DOMAIN tree /\ path \in DOMAIN fs
                             /\ fs[path] = tree[path]

\* Where an operation of the plan puts an object: a path of the temporary
\* directory or a path of the tree. A Delete names no destination.
DestinationOf(operation) ==
  IF operation.op = "MoveOut" THEN <<"tmp", operation.to>> ELSE <<"tree", operation.to>>

\* C37: when sync has planned, every entry the target had under sync_to is
\* either kept with no operation at its path, or moved by one Move of the pre
\* phase into the temporary directory that one Move of the post phase takes
\* from there, or deleted by one Delete of the pre phase, and never two of
\* these; no two Moves or Copies of the plan have one destination, and no
\* operation of the post phase has the path of a kept entry as destination.
C37_OneFatePerEntrySetAside ==
  (last.op = "sync" /\ last.call.planned) =>
    LET set_aside == Under(last.call.before.element_list, last.call.prefixes.to)
        pre == last.call.pre
        post == last.call.post
        placing == SelectSeq(pre \o post, LAMBDA o : o.op # "Delete")
        Moves(e) == {j \in 1..Len(pre) : pre[j].op = "MoveOut" /\ pre[j].from = e.path}
        Deletes(e) == {j \in 1..Len(pre) : pre[j] = OpDelete(e.path)}
        Takers(j) == {k \in 1..Len(post) : post[k].op = "MoveIn" /\ post[k].from = pre[j].to}
        Reclaimed(e) == Moves(e) = {} /\ Deletes(e) = {}
    IN /\ \A i \in 1..Len(set_aside) :
            LET e == set_aside[i]
            IN \/ /\ Reclaimed(e)
                  /\ Count(last.call.target.element_list, e) = 1
               \/ /\ Cardinality(Moves(e)) = 1 /\ Deletes(e) = {}
                  /\ \A j \in Moves(e) : Cardinality(Takers(j)) = 1
               \/ Cardinality(Deletes(e)) = 1 /\ Moves(e) = {}
       /\ \A j, k \in 1..Len(placing) :
            j # k => DestinationOf(placing[j]) # DestinationOf(placing[k])
       /\ \A i \in 1..Len(set_aside) : \A k \in 1..Len(post) :
            Reclaimed(set_aside[i]) => post[k].to # set_aside[i].path

\* The same for target stores and source lists in which no two entries have
\* one path.
OneFateWithUniquePaths ==
  (/\ last.op = "sync" /\ last.call.planned
   /\ UniquePaths(last.call.before.element_list)
   /\ UniquePaths(last.call.source_element_list)) => C37_OneFatePerEntrySetAside

\* The steps of a sync that came to carry out its plan: what was done, and
\* what the whole of it is, from the first file operation to the second sweep.
Executed == last.op = "sync" /\ last.call.planned /\ last.result \in {"Ok", "IoError"}
OperationSteps(operations) ==
  [k \in 1..Len(operations) |-> [step |-> "operation", operation |-> operations[k]]]
SweepStep == [step |-> "delete_empty_folders", operation |-> NoOperation]
WholeExecution ==
  OperationSteps(last.call.pre) \o <<SweepStep>> \o OperationSteps(last.call.post)
  \o <<SweepStep>>

\* C27: in a sync that came to carry out its plan the steps are, in this
\* order, the pre operations one by one, a sweep of the empty directories, the
\* post operations one by one, and a second sweep (after which only the sweep
\* of the temporary directory may follow); a step that fails is the last step
\* and sync then returns an error, and sync returns Ok only after all of them.
C27_PhasesInOrder ==
  Executed =>
    LET steps == last.call.steps
    IN /\ steps # <<>>
       /\ \A k \in 1..Len(steps) :
            /\ k < Len(steps) => steps[k].ok
            /\ IF k <= Len(WholeExecution)
               THEN /\ steps[k].step = WholeExecution[k].step
                    /\ steps[k].operation = WholeExecution[k].operation
               ELSE /\ steps[k].step = "delete_empty_folders_tmp"
                    /\ k = Len(WholeExecution) + 1
       /\ last.result = "IoError" <=> ~steps[Len(steps)].ok
       /\ last.result = "Ok" => Len(steps) >= Len(WholeExecution)

\* A sync whose plan has operations of both phases ended with an error at its
\* first sweep: the pre operations were carried out, no post operation was.
C27_Witness ==
  /\ Executed /\ last.call.pre # <<>> /\ last.call.post # <<>>
  /\ last.result = "IoError"
  /\ Len(last.call.steps) = Len(last.call.pre) + 1
  /\ last.call.steps[Len(last.call.steps)].step = "delete_empty_folders"

\* C28: in a sync that came to carry out its plan, when a file operation is
\* begun the synclist holds every operation of the plan, the pre operations
\* and the post operations.
C28_PlanLoggedBeforeExecution ==
  Executed =>
    \A k \in 1..Len(last.call.steps) :
      last.call.steps[k].step = "operation"
        => last.call.steps[k].synclist = last.call.pre \o last.call.post

\* What the code does: when a file operation is begun the synclist holds the
\* operations of its phase and of the phase before it.
SynclistByPhase ==
  Executed =>
    \A k \in 1..Len(last.call.steps) :
      last.call.steps[k].step = "operation"
        => last.call.steps[k].synclist
             = IF k <= Len(last.call.pre) THEN last.call.pre
               ELSE last.call.pre \o last.call.post

(***************************************************************************)
(* SpecVerify: verify, verify_links and test_integrity over stores of a     *)
(* file entry and a link entry and trees in which their objects are as      *)
(* recorded, altered, replaced or gone.                                     *)
(***************************************************************************)
VerifyFileEntry == from_internal(Asc(<<".", "/", "a">>), 105, FileVariant(hash_file(Asc(<<"a">>))))
VerifyLinkEntry == from_internal(Asc(<<".", "/", "t", "/", "b">>), 7, LinkVariant(Asc(<<"a">>)))
VerifyLists == InjLists({VerifyFileEntry, VerifyLinkEntry})
\* What there can be at ./a, at ./t/b and at ./t/a, where the link leads.
VerifyObjects ==
  [a : {NoObject, DirObject, LinkObject(Asc(<<"c">>), 105)}
         \cup {FileObject(data, time) : data \in {Asc(<<"a">>), Asc(<<"b">>)}, time \in {105, 7}},
   b : {NoObject, FileObject(Asc(<<"a">>), 7)}
         \cup {LinkObject(data, time) : data \in {Asc(<<"a">>), Asc(<<"c">>)}, time \in {7, 8}},
   to : {NoObject, FileObject(Asc(<<"a">>), 105)}]
VerifyTree(objects) ==
  LET at == (Asc(<<".", "/", "a">>) :> objects.a) @@ (Asc(<<".", "/", "t", "/", "b">>) :> objects.b)
              @@ (Asc(<<".", "/", "t", "/", "a">>) :> objects.to)
  IN [path \in {q \in DOMAIN at : at[q] # NoObject} |-> at[path]]
VerifyBanlists == {new_dummy, BannedPaths(<<Asc(<<".", "/", "t", "/">>)>>, EmptyHashMap)}
VerifySelections ==
  {[only |-> "all", prefix |-> <<>>], [only |-> "links", prefix |-> <<>>],
   [only |-> "prefix", prefix |-> Asc(<<".", "/", "t", "/">>)]}

VerifyInit ==
  /\ has_list = TRUE
  /\ element_list \in VerifyLists
  /\ xor_checksum = XorOfElements(element_list)
  /\ file_hashes = NoFile /\ backups = <<>>
  /\ fs \in {VerifyTree(objects) : objects \in VerifyObjects}
  /\ aside = NoAside /\ banlist \in VerifyBanlists
  /\ last = NoLast /\ ghost = NoGhost /\ codec = NoCodec

\* The program calls EDList::verify or EDList::verify_links.
Verify ==
  /\ has_list /\ last.op = "none"
  /\ \E selection \in VerifySelections :
       LET verified == verify(Store, selection, fs, banlist)
       IN last' = [NoLast EXCEPT
                     !.op = "verify",
                     !.result = IF verified.panicked THEN "panic" ELSE "Ok",
                     !.index = Len(verified.error_list),
                     !.call = [before |-> Store, selection |-> selection,
                               error_list |-> verified.error_list]]
  /\ UNCHANGED <<storeVars, diskVars, treeVars, ghost, codec>>

\* EDElement::test_integrity is called on an entry of the store.
TestIntegrity ==
  /\ has_list /\ last.op = "none"
  /\ \E i \in 1..Len(element_list) :
       last' = [NoLast EXCEPT !.op = "test_integrity",
                              !.result = test_integrity(fs, element_list[i]),
                              !.index = i]
  /\ UNCHANGED <<storeVars, diskVars, treeVars, ghost, codec>>

VerifyNext == Verify \/ TestIntegrity

SpecVerify == VerifyInit /\ [][VerifyNext]_vars

\* The errors verify is to return for a list of selected entries: of every
\* entry, in their order, the error of test_integrity if it has one and
\* PathInBanlist if its path is banned.
RECURSIVE ErrorsOfAll(_)
ErrorsOfAll(list) ==
  IF list = <<>> THEN <<>>
  ELSE (IF test_integrity(fs, Head(list)) = "Ok" THEN <<>>
        ELSE <<VerifyError(test_integrity(fs, Head(list)), Head(list).path)>>)
       \o (IF is_in_banlist(banlist, Head(list).path)
           THEN <<VerifyError("PathInBanlist", Head(list).path)>> ELSE <<>>)
       \o ErrorsOfAll(Tail(list))

\* C23: verify (of the whole list or of the entries under a prefix) and
\* verify_links return; the list returned holds, for every selected entry in
\* list order, the error of its test_integrity, if any, and a PathInBanlist
\* error if its path is banned, whatever happened at the entries before; and
\* the store has the entries and the xor checksum it had.
C23_VerifyReportsAll ==
  last.op = "verify" =>
    /\ last.result = "Ok"
    /\ last.call.error_list = ErrorsOfAll(Selected(element_list, last.call.selection))
    /\ Store = last.call.before

\* The four-way table of test_integrity over whether the content (or the
\* target) is the recorded one and whether the modified time is.
FourWay(same, time_same, both, time_only, content_only, neither) ==
  IF same THEN (IF time_same THEN both ELSE time_only)
  ELSE (IF time_same THEN content_only ELSE neither)

\* C24: for an entry whose object exists and is no directory, test_integrity
\* returns: for a file entry, Ok when the content hashes to the stored checksum
\* and the time is the stored one, TimeChangedButFileCorrectError when only the
\* time differs, InvalidChecksum when only the content differs,
\* TimeChangedAndFileChanged when both do; for a link entry the same over
\* whether the object is a link with the stored target.
C24_FourWayTable ==
  last.op = "test_integrity" =>
    LET e == element_list[last.index]
        metadata == symlink_metadata(fs, e.path)
        time_same == metadata.modified_time = e.modified_time
    IN metadata.kind \notin {"none", "dir"} =>
         IF e.variant_fields.type = "File"
         THEN ReadAt(fs, e.path, MaxLinkDepth).ok =>
                last.result
                  = FourWay(hash_file(ReadAt(fs, e.path, MaxLinkDepth).data)
                              = e.variant_fields.file_checksum,
                            time_same, "Ok", "TimeChangedButFileCorrectError",
                            "InvalidChecksum", "TimeChangedAndFileChanged")
         ELSE last.result
                = FourWay(metadata.kind = "link" /\ metadata.data = e.variant_fields.link_target,
                          time_same, "Ok", "LinkTargetValidTimeChanged",
                          "LinkTargetInvalid", "LinkTargetInvalidTimeChanged")

(***************************************************************************)
(* SpecRelative: the relative checksums of two stores.                      *)
(***************************************************************************)
RelativePaths ==
  {Asc(<<".", "/", "s", "/", "a">>), Asc(<<".", "/", "s", "/", "b">>),
   Asc(<<".", "/", "t", "/", "a">>), Asc(<<".", "/", "t", "/", "b">>)}
RelativeElements ==
  {SyncLinkAt(path) : path \in RelativePaths}
  \cup {SyncFileAt(Asc(<<".", "/", "s", "/", "a">>)), SyncFileAt(Asc(<<".", "/", "t", "/", "a">>))}
\* The paths the operator enters, and sync passes: they end with a slash.
RelativePrefixes ==
  {Asc(<<".", "/", "s", "/">>), Asc(<<".", "/", "t", "/">>), Asc(<<".", "/", "d", "/">>),
   Asc(<<".", "/">>)}

\* Two stores: the one the program holds and another (codec.other).
RelativeInit ==
  /\ has_list = TRUE
  /\ element_list \in InjLists(RelativeElements)
  /\ xor_checksum = XorOfElements(element_list)
  /\ file_hashes = NoFile /\ backups = <<>>
  /\ fs = NoFiles /\ aside = NoAside /\ banlist = NoBanlist
  /\ last = NoLast /\ ghost = NoGhost
  /\ \E other \in InjLists(RelativeElements) : codec = [NoCodec EXCEPT !.other = other]

\* The operator asks for the relative checksum of a path in both stores, and
\* sync's internal call is made for the same paths.
RelativeChecksum ==
  /\ has_list /\ last.op = "none"
  /\ \E relative_path \in RelativePrefixes, other_path \in RelativePrefixes :
       last' = [NoLast EXCEPT
                  !.op = "relative_checksum", !.result = "Ok",
                  !.call = [relative_path |-> relative_path, other_path |-> other_path,
                            answer |-> relative_checksum(element_list, relative_path),
                            other_answer |-> relative_checksum(codec.other, other_path),
                            internal |-> internal_relative_checksum(element_list,
                                                                    relative_path),
                            other_internal |-> internal_relative_checksum(codec.other,
                                                                          other_path)]]
  /\ UNCHANGED <<storeVars, diskVars, treeVars, ghost, codec>>

RelativeNext == RelativeChecksum

SpecRelative == RelativeInit /\ [][RelativeNext]_vars

\* Of the entries of a list whose path starts with a prefix, in list order:
\* the path without the prefix, the modified time and the bytes of the variant.
RECURSIVE Relocatable(_, _)
Relocatable(list, prefix) ==
  IF list = <<>> THEN <<>>
  ELSE (IF HasPrefix(Head(list).path, prefix)
        THEN <<<<Drop(Head(list).path, Len(prefix)), Head(list).modified_time,
                 VariantBytes(Head(list).variant_fields)>>>>
        ELSE <<>>)
       \o Relocatable(Tail(list), prefix)

\* C25: two stores whose entries under p and under p' give the same sequence
\* of (path without the prefix, modified time, variant payload) have the same
\* relative checksum there, in what the operator is told and in what sync's
\* internal call returns; where no entry starts with the prefix, the operator
\* is told that no files were found, and the internal call returns the digest
\* of the empty input.
C25_RelativeChecksumOfSequence ==
  last.op = "relative_checksum" =>
    /\ Relocatable(element_list, last.call.relative_path)
         = Relocatable(codec.other, last.call.other_path)
       => /\ last.call.answer = last.call.other_answer
          /\ last.call.internal = last.call.other_internal
    /\ Relocatable(element_list, last.call.relative_path) = <<>>
       => /\ last.call.answer.message = "No files were found in the specified path"
          /\ last.call.internal = blake2_to_checksum(Blake2bNew)
    /\ Relocatable(element_list, last.call.relative_path) # <<>>
       => /\ last.call.answer.message = "Relative hash"
          /\ last.call.answer.hash = ChecksumToString(last.call.internal)

\* The store holds the file ./s/a beside a link ./t/a, the other store holds
\* the same file as ./t/a beside a link ./s/b; the relative checksum of ./s/ in
\* the one and of ./t/ in the other were asked for, and are the same.
C25_Witness ==
  /\ last.op = "relative_checksum"
  /\ element_list = <<SyncFileAt(Asc(<<".", "/", "s", "/", "a">>)),
                      SyncLinkAt(Asc(<<".", "/", "t", "/", "a">>))>>
  /\ codec.other = <<SyncLinkAt(Asc(<<".", "/", "s", "/", "b">>)),
                     SyncFileAt(Asc(<<".", "/", "t", "/", "a">>))>>
  /\ last.call.relative_path = Asc(<<".", "/", "s", "/">>)
  /\ last.call.other_path = Asc(<<".", "/", "t", "/">>)
  /\ last.call.answer.message = "Relative hash"
  /\ last.call.answer = last.call.other_answer

(***************************************************************************)
(* SpecBanfile: PathBanlist::open over banlist files.                       *)
(***************************************************************************)
BanlistPath ==
  Asc(<<".", "/", "f", "i", "l", "e", "_", "h", "a", "s", "h", "e", "r", "_",
        "f", "i", "l", "e", "s", "/", "b", "a", "n", "l", "i", "s", "t">>)
\* The lines of a file that are banned paths: not empty, not begun with '#',
\* not begun with the checksum prefix.
IsBannedLine(line) ==
  line # <<>> /\ Head(line) # Chr["#"] /\ ~HasPrefix(line, FIN_CHECKSUM_PREFIX)
BannedLines(lines) == SelectSeq(lines, IsBannedLine)
\* The checksum line that fits the lines of a file.
FittingLine(lines) ==
  FIN_CHECKSUM_PREFIX
  \o encode_upper(blake2_to_checksum(Blake2bUpdate(Blake2bNew, Concat(BannedLines(lines)))))
\* Lines of a file besides its fitting checksum: two banned paths, a comment,
\* an empty line, a checksum line that fits no file, a line that is not UTF-8.
BanFileLines ==
  {Asc(<<".", "/", "a">>), Asc(<<".", "/", "b">>), Asc(<<"#", "a">>), <<>>,
   FIN_CHECKSUM_PREFIX \o Asc(<<"0">>), <<255>>}
MaxBanFileLines == 3
\* A sequence with an element put in after position k.
InsertAfter(lines, k, line) == SubSeq(lines, 1, k) \o <<line>> \o SubSeq(lines, k + 1, Len(lines))
\* The files: up to MaxBanFileLines lines, and with them the fitting checksum
\* line nowhere, at one place or at two; every line ended by LF or by CR LF.
BanFiles ==
  LET bodies == Strings(BanFileLines, MaxBanFileLines)
      once(body) == {InsertAfter(body, k, FittingLine(body)) : k \in 0..Len(body)}
      twice(body) == {InsertAfter(lines, k, FittingLine(body))
                      : lines \in once(body), k \in 0..Len(body)}
  IN {JoinLines(lines, eol)
      : lines \in UNION {{body} \cup once(body) \cup twice(body) : body \in bodies},
        eol \in {<<Chr["LF"]>>, <<Chr["CR"], Chr["LF"]>>}}

\* The banlist file as [exists, bytes].
BanlistFile ==
  IF BanlistPath \in DOMAIN fs THEN [exists |-> TRUE, bytes |-> fs[BanlistPath].data]
  ELSE NoFile

BanfileInit ==
  /\ has_list = FALSE /\ element_list = <<>> /\ xor_checksum = ChecksumDefault
  /\ file_hashes = NoFile /\ backups = <<>> /\ last = NoLast /\ ghost = NoGhost
  /\ codec = NoCodec /\ aside = NoAside /\ banlist = NoBanlist
  /\ fs \in {NoFiles} \cup {BanlistPath :> FileObject(bytes, 0) : bytes \in BanFiles}

\* The program calls PathBanlist::open; where there is no file the operator
\* answers YES or NO, and creating the file goes through or fails.
OpenBanlist ==
  /\ last.op = "none"
  /\ \E answer \in {"YES", "NO"}, io \in BanlistIo :
       LET done == PathBanlistOpen(BanlistFile, answer, io)
       IN /\ BanlistFile.exists => (answer = "NO" /\ io = "ok")
          /\ answer = "NO" => io = "ok"
          /\ banlist' = done.opened.banned_paths
          /\ fs' = IF done.file = BanlistFile THEN fs
                   ELSE Put(fs, BanlistPath, FileObject(done.file.bytes, 0))
          /\ last' = [NoLast EXCEPT !.op = "open_banlist", !.result = done.opened.result,
                                    !.call = [file |-> BanlistFile, answer |-> answer]]
  /\ UNCHANGED <<storeVars, diskVars, aside, ghost, codec>>

BanfileNext == OpenBanlist

SpecBanfile == BanfileInit /\ [][BanfileNext]_vars

\* C26: PathBanlist::open of a file that is text returns Ok exactly when one
\* line of the file, and no more, starts with 'CHECKSUM = ' and what follows
\* the prefix is the upper-case hex digest of the lines that are not empty, do
\* not start with '#' and are no checksum line, put together in file order with
\* nothing between them; with two or more such lines it returns
\* DuplicateChecksum, with one of another value InvalidChecksum, with none
\* MissingChecksum, and then no banlist; when it returns Ok the banlist bans
\* the paths those lines begin.
C26_BanlistOpensIffOneFittingChecksum ==
  (/\ last.op = "open_banlist" /\ last.call.file.exists
   /\ \A k \in 1..Len(last.call.file.bytes) : last.call.file.bytes[k] <= 127) =>
    LET lines == SplitLines(last.call.file.bytes, <<>>)
        checksums == {i \in 1..Len(lines) : HasPrefix(lines[i], FIN_CHECKSUM_PREFIX)}
        fits == \A i \in checksums : lines[i] = FittingLine(lines)
    IN /\ last.result = "Ok" <=> (Cardinality(checksums) = 1 /\ fits)
       /\ Cardinality(checksums) > 1 => last.result = "DuplicateChecksum"
       /\ (Cardinality(checksums) = 1 /\ ~fits) => last.result = "InvalidChecksum"
       /\ Cardinality(checksums) = 0 => last.result = "MissingChecksum"
       /\ last.result # "Ok" => banlist = EmptyHashMap
       /\ last.result = "Ok" => banlist = BannedPaths(BannedLines(lines), EmptyHashMap)
       /\ fs[BanlistPath].data = last.call.file.bytes

\* A file of the banned path ./a, its fitting checksum line, a comment and the
\* banned path ./b, in that order, was opened: ./b is banned.
C26_Witness ==
  /\ last.op = "open_banlist" /\ last.result = "Ok"
  /\ SplitLines(last.call.file.bytes, <<>>)
       = <<Asc(<<".", "/", "a">>),
           FittingLine(<<Asc(<<".", "/", "a">>), Asc(<<".", "/", "b">>)>>),
           Asc(<<"#", "a">>), Asc(<<".", "/", "b">>)>>
  /\ is_in_banlist(banlist, Asc(<<".", "/", "b", "/", "c">>))
  /\ ~is_in_banlist(banlist, Asc(<<".", "/", "c">>))

(***************************************************************************)
(* SpecElement: EDElement::from_path and EDElement::hash_file over what    *)
(* there can be at a path and over the ways reads split a file.            *)
(***************************************************************************)
ElementPath == Asc(<<".", "/", "a">>)
ElementTarget == Asc(<<".", "/", "b">>)
\* The contents of a file: shorter than the buffer, as long, and longer.
ElementContents ==
  {<<>>, Asc(<<"a">>), Asc(<<"a", "b">>), Asc(<<"a", "b", "a">>),
   Asc(<<"a", "b", "a", "b">>)}
\* What there can be at ./a: nothing, a directory, a pipe, a file, a link to b
\* or to c; and at ./b: nothing, a file, a directory.
ElementObjects ==
  {NoObject, DirObject, OtherObject(7)}
  \cup {FileObject(content, 105) : content \in ElementContents}
  \cup {LinkObject(target, time) : target \in {Asc(<<"b">>), Asc(<<"c">>)}, time \in {7, 8}}
ElementTrees ==
  {[path \in {p \in {ElementPath, ElementTarget} :
                IF p = ElementPath THEN a # NoObject ELSE b # NoObject}
      |-> IF path = ElementPath THEN a ELSE b]
   : a \in ElementObjects, b \in {NoObject, DirObject, FileObject(Asc(<<"a">>), 105)}}
\* The sizes the first calls of read return at most.
MaxReads == 2
ReadSizes == UNION {[1..n -> 1..BufferSize] : n \in 0..MaxReads}

ElementInit ==
  /\ has_list = FALSE /\ element_list = <<>> /\ xor_checksum = ChecksumDefault
  /\ file_hashes = NoFile /\ backups = <<>> /\ last = NoLast /\ ghost = NoGhost
  /\ codec = NoCodec /\ aside = NoAside /\ banlist = NoBanlist
  /\ fs \in ElementTrees

\* The program calls EDElement::from_path on a path.
FromPath ==
  /\ last.op = "none"
  /\ \E path \in {ElementPath, ElementTarget} :
       last' = [NoLast EXCEPT !.op = "from_path",
                              !.result = IF from_path(fs, path).ok THEN "Ok"
                                         ELSE from_path(fs, path).err,
                              !.call = [path |-> path]]
  /\ UNCHANGED <<storeVars, diskVars, treeVars, ghost, codec>>

\* EDElement::hash_file reads the file at ./a; the reads return what they do.
HashFile ==
  /\ last.op = "none" /\ symlink_metadata(fs, ElementPath).kind = "file"
  /\ \E reads \in ReadSizes :
       last' = [NoLast EXCEPT
                  !.op = "hash_file",
                  !.call = [reads |-> reads,
                            checksum |-> hash_file_loop(fs[ElementPath].data, 0,
                                                        Blake2bNew, reads, 1)]]
  /\ UNCHANGED <<storeVars, diskVars, treeVars, ghost, codec>>

ElementNext == FromPath \/ HashFile

SpecElement == ElementInit /\ [][ElementNext]_vars

\* C33: from_path on a path at which there is a directory, or what is neither
\* a file nor a link, returns an error and does not panic.
C33_NonRegularIsAnError ==
  (/\ last.op = "from_path"
   /\ symlink_metadata(fs, last.call.path).kind \in {"dir", "other"}) =>
    last.result \notin {"Ok", "panic"}

\* What the code does: from_path returns an entry for a file and for a link
\* whose target can be opened, an error where there is nothing or the target
\* of the link cannot be opened, and panics on everything else.
FromPathPanics ==
  last.op = "from_path" =>
    (last.result = "panic"
       <=> symlink_metadata(fs, last.call.path).kind \in {"dir", "other"})

\* C34: the checksum hash_file returns is the digest of all the bytes of the
\* file, however the reads split them.
C34_DigestOfAllBytes ==
  last.op = "hash_file" =>
    last.call.checksum = blake2_to_checksum(Blake2bUpdate(Blake2bNew, fs[ElementPath].data))

\* What the code does: the checksum is the digest of the bytes up to the
\* first read that did not fill the buffer; it is that of all bytes where no
\* read before the end of the file returned fewer bytes than the buffer holds.
RECURSIVE ReadUpTo(_, _, _, _)
ReadUpTo(length, pos, reads, k) ==
  LET asked == IF k <= Len(reads) THEN reads[k] ELSE BufferSize
  IN IF pos + asked >= length THEN length
     ELSE IF asked < BufferSize THEN pos + asked
     ELSE ReadUpTo(length, pos + asked, reads, k + 1)
DigestUpToShortRead ==
  last.op = "hash_file" =>
    LET content == fs[ElementPath].data
    IN last.call.checksum
         = blake2_to_checksum(SubSeq(content, 1, ReadUpTo(Len(content), 0, last.call.reads, 1)))

(***************************************************************************)
(* Spec: a root directory, its manifest file and the program's operations. *)
(***************************************************************************)
SpecPaths ==
  {Asc(<<".", "/", "a">>), Asc(<<".", "/", "t", "/", "a">>), Asc(<<".", "/", "t", "/", "b">>)}
SpecObjects == {FileObject(Asc(<<"a">>), 7)}
\* The tree at the start: the link ./t/b leads to the file ./t/a.
SpecTrees ==
  {(Asc(<<".", "/", "a">>) :> FileObject(Asc(<<"a">>), 105))
   @@ (Asc(<<".", "/", "t", "/", "a">>) :> FileObject(Asc(<<"a">>), 105))
   @@ (Asc(<<".", "/", "t", "/", "b">>) :> LinkObject(Asc(<<"a">>), 7))}
SpecBanlists == {new_dummy, BannedPaths(<<Asc(<<".", "/", "a">>)>>, EmptyHashMap)}

\* Manifest files whose checksums are right and in which two entries have one
\* path, or an entry has the empty path.
TwoEntriesOnePath ==
  <<from_internal(Asc(<<".", "/", "a">>), 105, FileVariant(hash_file(Asc(<<"a">>)))),
    from_internal(Asc(<<".", "/", "a">>), 7, LinkVariant(Asc(<<"a">>)))>>
EntryWithoutPath == <<from_internal(<<>>, 7, LinkVariant(Asc(<<"a">>)))>>
SpecManifests ==
  {NoFile}
  \cup {[exists |-> TRUE, bytes |-> write_edlist_to_file(EDListNew(l, XorOfElements(l)))]
        : l \in {TwoEntriesOnePath, EntryWithoutPath}}

\* The number of changes made to the tree from outside the program.
MaxChanges == 1

\* Something outside the program writes, replaces or removes a file or link.
Change ==
  /\ ghost.changes < MaxChanges
  /\ \E path \in SpecPaths :
       \/ \E object \in SpecObjects : fs' = Put(fs, path, object) /\ fs' # fs
       \/ path \in DOMAIN fs /\ fs' = Remove(fs, path)
  /\ ghost' = [ghost EXCEPT !.changes = @ + 1]
  /\ last' = [NoLast EXCEPT !.op = "change"]
  /\ UNCHANGED <<storeVars, diskVars, aside, banlist, codec>>

Init ==
  /\ has_list = FALSE /\ element_list = <<>> /\ xor_checksum = ChecksumDefault
  /\ file_hashes \in SpecManifests /\ backups = <<>>
  /\ fs \in SpecTrees /\ aside = NoAside /\ banlist \in SpecBanlists
  /\ last = NoLast /\ ghost = NoGhost /\ codec = NoCodec

Next == Open \/ Create \/ Delete \/ Sort \/ Sync \/ Change

Spec == Init /\ [][Next]_vars

\* C1: in every state reached from a store that open returned (loaded, or
\* created empty) by create, delete, sort and sync, however each of them ends,
\* the xor checksum of the store is the xor of the element hashes of its entries.
C1_XorFold == has_list => xor_checksum = XorOfElements(element_list)

\* A second operation has ended, it was a sync that went through, and the store
\* holds entries the sync brought in beside others.
C1_Witness ==
  /\ has_list /\ ghost.ops = MaxOps
  /\ last.op = "sync" /\ last.result = "Ok"
  /\ Len(element_list) >= 3
  /\ xor_checksum # ChecksumDefault

\* C13: when create has returned Ok, of the paths index gave that were not
\* paths of entries before: each whose entry could be made is an entry of the
\* store, as from_path made it; each whose entry could not be made is once in
\* the returned errors and is no entry; and there is no other error. (A path
\* that follows a failed one in the list is among them.)
C13_CreateAddsOrReports ==
  (last.op = "create" /\ last.result = "Ok") =>
    LET index_list == last.call.index_list
        errors == last.call.errors
        pending == {index_list[i] : i \in 1..Len(index_list)}
                     \ PathsOf(last.call.before.element_list)
    IN /\ \A path \in pending :
            IF from_path(fs, path).ok
            THEN /\ Count(element_list, from_path(fs, path).element) = 1
                 /\ Count(errors, path) = 0
            ELSE /\ Count(errors, path) = 1
                 /\ path \notin PathsOf(element_list)
       /\ \A i \in 1..Len(errors) : errors[i] \in pending

\* create came to a link whose target is gone, reported it, and went on to
\* add the file that index listed after it.
C13_Witness ==
  /\ last.op = "create" /\ last.result = "Ok"
  /\ last.call.before.element_list = <<>>
  /\ last.call.index_list = <<Asc(<<".", "/", "t", "/", "b">>), Asc(<<".", "/", "a">>)>>
  /\ last.call.errors = <<Asc(<<".", "/", "t", "/", "b">>)>>
  /\ PathsOf(element_list) = {Asc(<<".", "/", "a">>)}

\* C40: when create returns an error, the walk of the directories had failed
\* and the store has the entries and the xor checksum it had, whatever the walk
\* had found before it failed; when the walk went through, create returns Ok,
\* also where entries could not be made, and those are in the returned errors.
C40_CreateErrLeavesStore ==
  last.op = "create" =>
    /\ last.result # "Ok" =>
         /\ ~last.call.walked
         /\ element_list = last.call.before.element_list
         /\ xor_checksum = last.call.before.xor_checksum
         /\ last.call.errors = <<>>
    /\ last.call.walked =>
         /\ last.result = "Ok"
         /\ \A i \in 1..Len(last.call.index_list) :
              (/\ last.call.index_list[i] \notin PathsOf(last.call.before.element_list)
               /\ ~from_path(fs, last.call.index_list[i]).ok)
                => Count(last.call.errors, last.call.index_list[i]) = 1

\* The walk failed after it had found a path that is not in the store and of
\* which an entry can be made; create returned the error.
C40_Witness ==
  /\ last.op = "create" /\ last.result = "CantGetSubDirError"
  /\ \E i \in 1..Len(last.call.index_list) :
       /\ last.call.index_list[i] \notin PathsOf(element_list)
       /\ from_path(fs, last.call.index_list[i]).ok

\* Whether delete finds fault with an entry: its path is in the banlist, or
\* test_metadata fails on it (delete changes neither the banlist nor the tree).
Faulted(e) == is_in_banlist(banlist, e.path) \/ test_metadata(fs, e) # "Ok"
\* What the operator decided about the faulted entry i of the list delete went
\* through: the first continued answer given to a faulted entry before it, or
\* else the answer given to it.
Decided(before, answers, i) ==
  LET continued == {j \in 1..(i - 1) : /\ Faulted(before[j])
                                       /\ answers[j] \in {"ContYes", "ContNo"}}
      said == IF continued = {} THEN answers[i]
              ELSE answers[CHOOSE j \in continued : \A k \in continued : j <= k]
  IN IF said \in {"Yes", "ContYes"} THEN "Yes" ELSE "No"
KeepsEntry(before, answers, i) ==
  ~Faulted(before[i]) \/ Decided(before, answers, i) = "No"
\* The entries of a list, from entry i on, that are kept.
RECURSIVE KeptOf(_, _, _)
KeptOf(before, answers, i) ==
  IF i > Len(before) THEN <<>>
  ELSE (IF KeepsEntry(before, answers, i) THEN <<before[i]>> ELSE <<>>)
       \o KeptOf(before, answers, i + 1)

\* C14 (as the code has it): after delete, the store holds, in their order,
\* the entries that are not banned and satisfied test_metadata and the entries
\* the operator decided to keep (by a no for the entry, or by a continued no
\* given before); so every entry still in the store either is not banned and
\* satisfied test_metadata, or was kept by the operator's answer.
C14_KeptSoundOrByAnswer ==
  last.op = "delete" =>
    LET before == last.call.before.element_list
        answers == last.call.answers
    IN /\ element_list = KeptOf(before, answers, 1)
       /\ \A k \in 1..Len(element_list) :
            \/ ~Faulted(element_list[k])
            \/ \E i \in 1..Len(before) :
                 /\ before[i] = element_list[k] /\ Faulted(before[i])
                 /\ Decided(before, answers, i) = "No"

\* delete went through two banned entries; the operator answered the first
\* question with a continued no and both entries are still in the store.
C14_Witness ==
  /\ last.op = "delete"
  /\ Len(last.call.before.element_list) = 2
  /\ \A i \in 1..2 : is_in_banlist(banlist, last.call.before.element_list[i].path)
  /\ last.call.answers[1] = "ContNo" /\ last.call.answers[2] = "Yes"
  /\ element_list = last.call.before.element_list

\* C14 (as stated): after delete, every entry still in the store is not banned
\* and satisfied test_metadata.
C14_KeptEntriesAreSound ==
  last.op = "delete" => \A k \in 1..Len(element_list) : ~Faulted(element_list[k])

\* C38: delete does not come to its panic: the number of deleted paths is the
\* old number of entries less the new one, and the old entries fall into two
\* parts, each entry in one of them: those the store still holds, in their
\* order, and those whose paths are the deleted paths, in their order.
C38_DeleteCountsAgree ==
  last.op = "delete" =>
    LET before == last.call.before.element_list
        deleted_paths == last.call.deleted_paths
        all == 1..Len(before)
    IN /\ last.result # "Panic"
       /\ Len(deleted_paths) = Len(before) - Len(element_list)
       /\ \E kept \in SUBSET all :
            LET gone == Without(before, kept, 1)
            IN /\ element_list = Without(before, all \ kept, 1)
               /\ deleted_paths = [k \in 1..Len(gone) |-> gone[k].path]

\* delete went through two entries, deleted the first and kept the second.
C38_Witness ==
  /\ last.op = "delete" /\ last.result = "Ok"
  /\ Len(last.call.before.element_list) = 2
  /\ last.call.deleted_paths = <<last.call.before.element_list[1].path>>
  /\ element_list = <<last.call.before.element_list[2]>>

\* The faulted entries of a list delete went through, by position, and the
\* first of them the operator answered with a continued answer (0 if none).
FaultedIn(before) == {i \in 1..Len(before) : Faulted(before[i])}
FirstContinued(before, answers) ==
  LET continued == {i \in FaultedIn(before) :
                      /\ answers[i] \in {"ContYes", "ContNo"}
                      /\ \A j \in FaultedIn(before) :
                           j < i => answers[j] \notin {"ContYes", "ContNo"}}
  IN IF continued = {} THEN 0 ELSE CHOOSE i \in continued : TRUE

\* C29: in one run of delete the operator is asked, in the order of the list,
\* about the banned or test_metadata-failing entries up to the first one he
\* answers with a continued yes or no, and about no entry after it; every
\* faulted entry after it is deleted if that answer was a continued yes and
\* kept if it was a continued no; an entry that is not banned and satisfies
\* test_metadata is kept and never asked about.
C29_ContinuedAnswerPinsTheRest ==
  last.op = "delete" =>
    LET before == last.call.before.element_list
        answers == last.call.answers
        prompted == last.call.prompted
        first == FirstContinued(before, answers)
        Kept(i) == \/ ~Faulted(before[i])
                   \/ IF first # 0 /\ i > first THEN answers[first] = "ContNo"
                      ELSE answers[i] \in {"No", "ContNo"}
        kept == {i \in 1..Len(before) : Kept(i)}
    IN /\ \A k \in 1..Len(prompted) :
            /\ Faulted(before[prompted[k]])
            /\ first # 0 => prompted[k] <= first
            /\ k > 1 => prompted[k - 1] < prompted[k]
       /\ \A i \in FaultedIn(before) :
            (first = 0 \/ i <= first) => \E k \in 1..Len(prompted) : prompted[k] = i
       /\ Len(element_list) = Cardinality(kept)
       /\ \A i \in kept : element_list[Cardinality({j \in kept : j <= i})] = before[i]

\* delete went through two faulted entries; the operator answered the one
\* question, about the first, with a continued yes, and the answer he had for
\* the second was a no: he was not asked about it and both are deleted.
C29_Witness ==
  /\ last.op = "delete"
  /\ Len(last.call.before.element_list) = 2
  /\ FaultedIn(last.call.before.element_list) = {1, 2}
  /\ last.call.answers[1] = "ContYes" /\ last.call.answers[2] = "No"
  /\ last.call.prompted = <<1>>
  /\ element_list = <<>>

\* C32: where the manifest file cannot be opened, open returns a store without
\* entries and with the all-zero xor checksum if the operator answers yes, and
\* CouldNotOpenFileHashesFile and no store if he answers no; where the source
\* folder of sync has no manifest file, sync returns the error of open, plans
\* nothing and leaves the store and the tree as they were.
C32_NoManifestNoSilentStore ==
  /\ (last.op = "open" /\ ~ghost.read_exists) =>
       IF last.call.answer = "Yes"
       THEN /\ last.result = "Ok" /\ has_list
            /\ element_list = <<>> /\ xor_checksum = ChecksumDefault
       ELSE last.result = "CouldNotOpenFileHashesFile" /\ ~has_list
  /\ (last.op = "sync" /\ ~last.call.source_exists) =>
       /\ last.result = "EDListOpenError" /\ ~last.call.planned
       /\ Store = last.call.before
       /\ fs = last.call.tree.fs /\ aside = last.call.tree.aside

\* sync was pointed at a folder without a manifest file, from a store with
\* entries, and returned the error of open.
C32_Witness ==
  /\ last.op = "sync" /\ ~last.call.source_exists
  /\ last.result = "EDListOpenError" /\ element_list # <<>>

\* C7: the paths of the entries of every store that open returned, or that
\* create, delete, sort and sync made of it, are non-empty and pairwise distinct.
C7_PathsDistinct ==
  has_list =>
    \A i \in 1..Len(element_list) :
      /\ element_list[i].path # <<>>
      /\ \A j \in 1..Len(element_list) : i # j => element_list[i].path # element_list[j].path
====
